---- MODULE Spec2Model ----
(***************************************************************************)
(* Model of the competency-framework reformatter.  The repository holds    *)
(* two variants of cleanAndReformatCompetencies:                           *)
(*   "procedural"  src/unnamed/part_000   (generateCode, structureMap)     *)
(*   "static"      src/batch_converter.js (MAJOR_AREA_MAP,                 *)
(*                                         createFrameworkPrefix)          *)
(* JavaScript strings that the code inspects, cuts or joins are sequences  *)
(* of UTF-16 code units, as in JavaScript: an ASCII character is the       *)
(* one-character string, any other code unit is written as its number      *)
(* ("U+0645"), and a character beyond U+FFFF is its two surrogates.        *)
(* Strings the code only copies (descriptions, the standard column values) *)
(* are plain TLA+ strings.                                                 *)
(***************************************************************************)
EXTENDS Integers, Sequences, FiniteSets, TLC

\* ------------------------------------------------------------ characters

UpperCaseLetters == <<"A", "B", "C", "D", "E", "F", "G", "H", "I", "J", "K", "L", "M", "N", "O", "P", "Q", "R", "S", "T", "U", "V", "W", "X", "Y", "Z">>
LowerCaseLetters == <<"a", "b", "c", "d", "e", "f", "g", "h", "i", "j", "k", "l", "m", "n", "o", "p", "q", "r", "s", "t", "u", "v", "w", "x", "y", "z">>
Digits == {"0", "1", "2", "3", "4", "5", "6", "7", "8", "9"}

Range(s) == {s[i] : i \in 1..Len(s)}

UpperCaseSet == Range(UpperCaseLetters)
LowerCaseSet == Range(LowerCaseLetters)

\* [A-Z]
IsUpper(c) == c \in UpperCaseSet
\* [a-zA-Z]
IsLetter(c) == c \in UpperCaseSet \/ c \in LowerCaseSet
\* \d
IsDigit(c) == c \in Digits
\* The code units \s matches and trim() strips: tab, LF, VT, FF, CR, space,
\* NBSP, U+1680, U+2000..U+200A, LS, PS, U+202F, U+205F, U+3000 and U+FEFF
\* (a control character in either of its two spellings)
WhiteSpace ==
    {" ", "\t", "\n", "\f", "\r",
     "U+0009", "U+000A", "U+000B", "U+000C", "U+000D", "U+0020", "U+00A0",
     "U+1680", "U+2000", "U+2001", "U+2002", "U+2003", "U+2004", "U+2005",
     "U+2006", "U+2007", "U+2008", "U+2009", "U+200A", "U+2028", "U+2029",
     "U+202F", "U+205F", "U+3000", "U+FEFF"}

\* \s
IsSpace(c) == c \in WhiteSpace

\* String.prototype.toUpperCase on an ASCII lower-case letter
UpperCaseOf ==
    [c \in LowerCaseSet |-> UpperCaseLetters[CHOOSE i \in 1..26 : LowerCaseLetters[i] = c]]

\* String.prototype.toUpperCase on the other cased characters: the case
\* mappings of Unicode 17.0, the version of the engine the program runs on
\* (node 20 with ICU 78; an engine with older tables leaves the letters added
\* since unchanged).  The code units up to U+FFFF that become one other code
\* unit, in code order
LowerCaseUnits ==
    <<"U+00B5", "U+00E0", "U+00E1", "U+00E2", "U+00E3", "U+00E4", "U+00E5", "U+00E6",
     "U+00E7", "U+00E8", "U+00E9", "U+00EA", "U+00EB", "U+00EC", "U+00ED", "U+00EE",
     "U+00EF", "U+00F0", "U+00F1", "U+00F2", "U+00F3", "U+00F4", "U+00F5", "U+00F6",
     "U+00F8", "U+00F9", "U+00FA", "U+00FB", "U+00FC", "U+00FD", "U+00FE", "U+00FF",
     "U+0101", "U+0103", "U+0105", "U+0107", "U+0109", "U+010B", "U+010D", "U+010F",
     "U+0111", "U+0113", "U+0115", "U+0117", "U+0119", "U+011B", "U+011D", "U+011F",
     "U+0121", "U+0123", "U+0125", "U+0127", "U+0129", "U+012B", "U+012D", "U+012F",
     "U+0131", "U+0133", "U+0135", "U+0137", "U+013A", "U+013C", "U+013E", "U+0140",
     "U+0142", "U+0144", "U+0146", "U+0148", "U+014B", "U+014D", "U+014F", "U+0151",
     "U+0153", "U+0155", "U+0157", "U+0159", "U+015B", "U+015D", "U+015F", "U+0161",
     "U+0163", "U+0165", "U+0167", "U+0169", "U+016B", "U+016D", "U+016F", "U+0171",
     "U+0173", "U+0175", "U+0177", "U+017A", "U+017C", "U+017E", "U+017F", "U+0180",
     "U+0183", "U+0185", "U+0188", "U+018C", "U+0192", "U+0195", "U+0199", "U+019A",
     "U+019B", "U+019E", "U+01A1", "U+01A3", "U+01A5", "U+01A8", "U+01AD", "U+01B0",
     "U+01B4", "U+01B6", "U+01B9", "U+01BD", "U+01BF", "U+01C5", "U+01C6", "U+01C8",
     "U+01C9", "U+01CB", "U+01CC", "U+01CE", "U+01D0", "U+01D2", "U+01D4", "U+01D6",
     "U+01D8", "U+01DA", "U+01DC", "U+01DD", "U+01DF", "U+01E1", "U+01E3", "U+01E5",
     "U+01E7", "U+01E9", "U+01EB", "U+01ED", "U+01EF", "U+01F2", "U+01F3", "U+01F5",
     "U+01F9", "U+01FB", "U+01FD", "U+01FF", "U+0201", "U+0203", "U+0205", "U+0207",
     "U+0209", "U+020B", "U+020D", "U+020F", "U+0211", "U+0213", "U+0215", "U+0217",
     "U+0219", "U+021B", "U+021D", "U+021F", "U+0223", "U+0225", "U+0227", "U+0229",
     "U+022B", "U+022D", "U+022F", "U+0231", "U+0233", "U+023C", "U+023F", "U+0240",
     "U+0242", "U+0247", "U+0249", "U+024B", "U+024D", "U+024F", "U+0250", "U+0251",
     "U+0252", "U+0253", "U+0254", "U+0256", "U+0257", "U+0259", "U+025B", "U+025C",
     "U+0260", "U+0261", "U+0263", "U+0264", "U+0265", "U+0266", "U+0268", "U+0269",
     "U+026A", "U+026B", "U+026C", "U+026F", "U+0271", "U+0272", "U+0275", "U+027D",
     "U+0280", "U+0282", "U+0283", "U+0287", "U+0288", "U+0289", "U+028A", "U+028B",
     "U+028C", "U+0292", "U+029D", "U+029E", "U+0345", "U+0371", "U+0373", "U+0377",
     "U+037B", "U+037C", "U+037D", "U+03AC", "U+03AD", "U+03AE", "U+03AF", "U+03B1",
     "U+03B2", "U+03B3", "U+03B4", "U+03B5", "U+03B6", "U+03B7", "U+03B8", "U+03B9",
     "U+03BA", "U+03BB", "U+03BC", "U+03BD", "U+03BE", "U+03BF", "U+03C0", "U+03C1",
     "U+03C2", "U+03C3", "U+03C4", "U+03C5", "U+03C6", "U+03C7", "U+03C8", "U+03C9",
     "U+03CA", "U+03CB", "U+03CC", "U+03CD", "U+03CE", "U+03D0", "U+03D1", "U+03D5",
     "U+03D6", "U+03D7", "U+03D9", "U+03DB", "U+03DD", "U+03DF", "U+03E1", "U+03E3",
     "U+03E5", "U+03E7", "U+03E9", "U+03EB", "U+03ED", "U+03EF", "U+03F0", "U+03F1",
     "U+03F2", "U+03F3", "U+03F5", "U+03F8", "U+03FB", "U+0430", "U+0431", "U+0432",
     "U+0433", "U+0434", "U+0435", "U+0436", "U+0437", "U+0438", "U+0439", "U+043A",
     "U+043B", "U+043C", "U+043D", "U+043E", "U+043F", "U+0440", "U+0441", "U+0442",
     "U+0443", "U+0444", "U+0445", "U+0446", "U+0447", "U+0448", "U+0449", "U+044A",
     "U+044B", "U+044C", "U+044D", "U+044E", "U+044F", "U+0450", "U+0451", "U+0452",
     "U+0453", "U+0454", "U+0455", "U+0456", "U+0457", "U+0458", "U+0459", "U+045A",
     "U+045B", "U+045C", "U+045D", "U+045E", "U+045F", "U+0461", "U+0463", "U+0465",
     "U+0467", "U+0469", "U+046B", "U+046D", "U+046F", "U+0471", "U+0473", "U+0475",
     "U+0477", "U+0479", "U+047B", "U+047D", "U+047F", "U+0481", "U+048B", "U+048D",
     "U+048F", "U+0491", "U+0493", "U+0495", "U+0497", "U+0499", "U+049B", "U+049D",
     "U+049F", "U+04A1", "U+04A3", "U+04A5", "U+04A7", "U+04A9", "U+04AB", "U+04AD",
     "U+04AF", "U+04B1", "U+04B3", "U+04B5", "U+04B7", "U+04B9", "U+04BB", "U+04BD",
     "U+04BF", "U+04C2", "U+04C4", "U+04C6", "U+04C8", "U+04CA", "U+04CC", "U+04CE",
     "U+04CF", "U+04D1", "U+04D3", "U+04D5", "U+04D7", "U+04D9", "U+04DB", "U+04DD",
     "U+04DF", "U+04E1", "U+04E3", "U+04E5", "U+04E7", "U+04E9", "U+04EB", "U+04ED",
     "U+04EF", "U+04F1", "U+04F3", "U+04F5", "U+04F7", "U+04F9", "U+04FB", "U+04FD",
     "U+04FF", "U+0501", "U+0503", "U+0505", "U+0507", "U+0509", "U+050B", "U+050D",
     "U+050F", "U+0511", "U+0513", "U+0515", "U+0517", "U+0519", "U+051B", "U+051D",
     "U+051F", "U+0521", "U+0523", "U+0525", "U+0527", "U+0529", "U+052B", "U+052D",
     "U+052F", "U+0561", "U+0562", "U+0563", "U+0564", "U+0565", "U+0566", "U+0567",
     "U+0568", "U+0569", "U+056A", "U+056B", "U+056C", "U+056D", "U+056E", "U+056F",
     "U+0570", "U+0571", "U+0572", "U+0573", "U+0574", "U+0575", "U+0576", "U+0577",
     "U+0578", "U+0579", "U+057A", "U+057B", "U+057C", "U+057D", "U+057E", "U+057F",
     "U+0580", "U+0581", "U+0582", "U+0583", "U+0584", "U+0585", "U+0586", "U+10D0",
     "U+10D1", "U+10D2", "U+10D3", "U+10D4", "U+10D5", "U+10D6", "U+10D7", "U+10D8",
     "U+10D9", "U+10DA", "U+10DB", "U+10DC", "U+10DD", "U+10DE", "U+10DF", "U+10E0",
     "U+10E1", "U+10E2", "U+10E3", "U+10E4", "U+10E5", "U+10E6", "U+10E7", "U+10E8",
     "U+10E9", "U+10EA", "U+10EB", "U+10EC", "U+10ED", "U+10EE", "U+10EF", "U+10F0",
     "U+10F1", "U+10F2", "U+10F3", "U+10F4", "U+10F5", "U+10F6", "U+10F7", "U+10F8",
     "U+10F9", "U+10FA", "U+10FD", "U+10FE", "U+10FF", "U+13F8", "U+13F9", "U+13FA",
     "U+13FB", "U+13FC", "U+13FD", "U+1C80", "U+1C81", "U+1C82", "U+1C83", "U+1C84",
     "U+1C85", "U+1C86", "U+1C87", "U+1C88", "U+1C8A", "U+1D79", "U+1D7D", "U+1D8E",
     "U+1E01", "U+1E03", "U+1E05", "U+1E07", "U+1E09", "U+1E0B", "U+1E0D", "U+1E0F",
     "U+1E11", "U+1E13", "U+1E15", "U+1E17", "U+1E19", "U+1E1B", "U+1E1D", "U+1E1F",
     "U+1E21", "U+1E23", "U+1E25", "U+1E27", "U+1E29", "U+1E2B", "U+1E2D", "U+1E2F",
     "U+1E31", "U+1E33", "U+1E35", "U+1E37", "U+1E39", "U+1E3B", "U+1E3D", "U+1E3F",
     "U+1E41", "U+1E43", "U+1E45", "U+1E47", "U+1E49", "U+1E4B", "U+1E4D", "U+1E4F",
     "U+1E51", "U+1E53", "U+1E55", "U+1E57", "U+1E59", "U+1E5B", "U+1E5D", "U+1E5F",
     "U+1E61", "U+1E63", "U+1E65", "U+1E67", "U+1E69", "U+1E6B", "U+1E6D", "U+1E6F",
     "U+1E71", "U+1E73", "U+1E75", "U+1E77", "U+1E79", "U+1E7B", "U+1E7D", "U+1E7F",
     "U+1E81", "U+1E83", "U+1E85", "U+1E87", "U+1E89", "U+1E8B", "U+1E8D", "U+1E8F",
     "U+1E91", "U+1E93", "U+1E95", "U+1E9B", "U+1EA1", "U+1EA3", "U+1EA5", "U+1EA7",
     "U+1EA9", "U+1EAB", "U+1EAD", "U+1EAF", "U+1EB1", "U+1EB3", "U+1EB5", "U+1EB7",
     "U+1EB9", "U+1EBB", "U+1EBD", "U+1EBF", "U+1EC1", "U+1EC3", "U+1EC5", "U+1EC7",
     "U+1EC9", "U+1ECB", "U+1ECD", "U+1ECF", "U+1ED1", "U+1ED3", "U+1ED5", "U+1ED7",
     "U+1ED9", "U+1EDB", "U+1EDD", "U+1EDF", "U+1EE1", "U+1EE3", "U+1EE5", "U+1EE7",
     "U+1EE9", "U+1EEB", "U+1EED", "U+1EEF", "U+1EF1", "U+1EF3", "U+1EF5", "U+1EF7",
     "U+1EF9", "U+1EFB", "U+1EFD", "U+1EFF", "U+1F00", "U+1F01", "U+1F02", "U+1F03",
     "U+1F04", "U+1F05", "U+1F06", "U+1F07", "U+1F10", "U+1F11", "U+1F12", "U+1F13",
     "U+1F14", "U+1F15", "U+1F20", "U+1F21", "U+1F22", "U+1F23", "U+1F24", "U+1F25",
     "U+1F26", "U+1F27", "U+1F30", "U+1F31", "U+1F32", "U+1F33", "U+1F34", "U+1F35",
     "U+1F36", "U+1F37", "U+1F40", "U+1F41", "U+1F42", "U+1F43", "U+1F44", "U+1F45",
     "U+1F51", "U+1F53", "U+1F55", "U+1F57", "U+1F60", "U+1F61", "U+1F62", "U+1F63",
     "U+1F64", "U+1F65", "U+1F66", "U+1F67", "U+1F70", "U+1F71", "U+1F72", "U+1F73",
     "U+1F74", "U+1F75", "U+1F76", "U+1F77", "U+1F78", "U+1F79", "U+1F7A", "U+1F7B",
     "U+1F7C", "U+1F7D", "U+1FB0", "U+1FB1", "U+1FBE", "U+1FD0", "U+1FD1", "U+1FE0",
     "U+1FE1", "U+1FE5", "U+214E", "U+2170", "U+2171", "U+2172", "U+2173", "U+2174",
     "U+2175", "U+2176", "U+2177", "U+2178", "U+2179", "U+217A", "U+217B", "U+217C",
     "U+217D", "U+217E", "U+217F", "U+2184", "U+24D0", "U+24D1", "U+24D2", "U+24D3",
     "U+24D4", "U+24D5", "U+24D6", "U+24D7", "U+24D8", "U+24D9", "U+24DA", "U+24DB",
     "U+24DC", "U+24DD", "U+24DE", "U+24DF", "U+24E0", "U+24E1", "U+24E2", "U+24E3",
     "U+24E4", "U+24E5", "U+24E6", "U+24E7", "U+24E8", "U+24E9", "U+2C30", "U+2C31",
     "U+2C32", "U+2C33", "U+2C34", "U+2C35", "U+2C36", "U+2C37", "U+2C38", "U+2C39",
     "U+2C3A", "U+2C3B", "U+2C3C", "U+2C3D", "U+2C3E", "U+2C3F", "U+2C40", "U+2C41",
     "U+2C42", "U+2C43", "U+2C44", "U+2C45", "U+2C46", "U+2C47", "U+2C48", "U+2C49",
     "U+2C4A", "U+2C4B", "U+2C4C", "U+2C4D", "U+2C4E", "U+2C4F", "U+2C50", "U+2C51",
     "U+2C52", "U+2C53", "U+2C54", "U+2C55", "U+2C56", "U+2C57", "U+2C58", "U+2C59",
     "U+2C5A", "U+2C5B", "U+2C5C", "U+2C5D", "U+2C5E", "U+2C5F", "U+2C61", "U+2C65",
     "U+2C66", "U+2C68", "U+2C6A", "U+2C6C", "U+2C73", "U+2C76", "U+2C81", "U+2C83",
     "U+2C85", "U+2C87", "U+2C89", "U+2C8B", "U+2C8D", "U+2C8F", "U+2C91", "U+2C93",
     "U+2C95", "U+2C97", "U+2C99", "U+2C9B", "U+2C9D", "U+2C9F", "U+2CA1", "U+2CA3",
     "U+2CA5", "U+2CA7", "U+2CA9", "U+2CAB", "U+2CAD", "U+2CAF", "U+2CB1", "U+2CB3",
     "U+2CB5", "U+2CB7", "U+2CB9", "U+2CBB", "U+2CBD", "U+2CBF", "U+2CC1", "U+2CC3",
     "U+2CC5", "U+2CC7", "U+2CC9", "U+2CCB", "U+2CCD", "U+2CCF", "U+2CD1", "U+2CD3",
     "U+2CD5", "U+2CD7", "U+2CD9", "U+2CDB", "U+2CDD", "U+2CDF", "U+2CE1", "U+2CE3",
     "U+2CEC", "U+2CEE", "U+2CF3", "U+2D00", "U+2D01", "U+2D02", "U+2D03", "U+2D04",
     "U+2D05", "U+2D06", "U+2D07", "U+2D08", "U+2D09", "U+2D0A", "U+2D0B", "U+2D0C",
     "U+2D0D", "U+2D0E", "U+2D0F", "U+2D10", "U+2D11", "U+2D12", "U+2D13", "U+2D14",
     "U+2D15", "U+2D16", "U+2D17", "U+2D18", "U+2D19", "U+2D1A", "U+2D1B", "U+2D1C",
     "U+2D1D", "U+2D1E", "U+2D1F", "U+2D20", "U+2D21", "U+2D22", "U+2D23", "U+2D24",
     "U+2D25", "U+2D27", "U+2D2D", "U+A641", "U+A643", "U+A645", "U+A647", "U+A649",
     "U+A64B", "U+A64D", "U+A64F", "U+A651", "U+A653", "U+A655", "U+A657", "U+A659",
     "U+A65B", "U+A65D", "U+A65F", "U+A661", "U+A663", "U+A665", "U+A667", "U+A669",
     "U+A66B", "U+A66D", "U+A681", "U+A683", "U+A685", "U+A687", "U+A689", "U+A68B",
     "U+A68D", "U+A68F", "U+A691", "U+A693", "U+A695", "U+A697", "U+A699", "U+A69B",
     "U+A723", "U+A725", "U+A727", "U+A729", "U+A72B", "U+A72D", "U+A72F", "U+A733",
     "U+A735", "U+A737", "U+A739", "U+A73B", "U+A73D", "U+A73F", "U+A741", "U+A743",
     "U+A745", "U+A747", "U+A749", "U+A74B", "U+A74D", "U+A74F", "U+A751", "U+A753",
     "U+A755", "U+A757", "U+A759", "U+A75B", "U+A75D", "U+A75F", "U+A761", "U+A763",
     "U+A765", "U+A767", "U+A769", "U+A76B", "U+A76D", "U+A76F", "U+A77A", "U+A77C",
     "U+A77F", "U+A781", "U+A783", "U+A785", "U+A787", "U+A78C", "U+A791", "U+A793",
     "U+A794", "U+A797", "U+A799", "U+A79B", "U+A79D", "U+A79F", "U+A7A1", "U+A7A3",
     "U+A7A5", "U+A7A7", "U+A7A9", "U+A7B5", "U+A7B7", "U+A7B9", "U+A7BB", "U+A7BD",
     "U+A7BF", "U+A7C1", "U+A7C3", "U+A7C8", "U+A7CA", "U+A7CD", "U+A7CF", "U+A7D1",
     "U+A7D3", "U+A7D5", "U+A7D7", "U+A7D9", "U+A7DB", "U+A7F6", "U+AB53", "U+AB70",
     "U+AB71", "U+AB72", "U+AB73", "U+AB74", "U+AB75", "U+AB76", "U+AB77", "U+AB78",
     "U+AB79", "U+AB7A", "U+AB7B", "U+AB7C", "U+AB7D", "U+AB7E", "U+AB7F", "U+AB80",
     "U+AB81", "U+AB82", "U+AB83", "U+AB84", "U+AB85", "U+AB86", "U+AB87", "U+AB88",
     "U+AB89", "U+AB8A", "U+AB8B", "U+AB8C", "U+AB8D", "U+AB8E", "U+AB8F", "U+AB90",
     "U+AB91", "U+AB92", "U+AB93", "U+AB94", "U+AB95", "U+AB96", "U+AB97", "U+AB98",
     "U+AB99", "U+AB9A", "U+AB9B", "U+AB9C", "U+AB9D", "U+AB9E", "U+AB9F", "U+ABA0",
     "U+ABA1", "U+ABA2", "U+ABA3", "U+ABA4", "U+ABA5", "U+ABA6", "U+ABA7", "U+ABA8",
     "U+ABA9", "U+ABAA", "U+ABAB", "U+ABAC", "U+ABAD", "U+ABAE", "U+ABAF", "U+ABB0",
     "U+ABB1", "U+ABB2", "U+ABB3", "U+ABB4", "U+ABB5", "U+ABB6", "U+ABB7", "U+ABB8",
     "U+ABB9", "U+ABBA", "U+ABBB", "U+ABBC", "U+ABBD", "U+ABBE", "U+ABBF", "U+FF41",
     "U+FF42", "U+FF43", "U+FF44", "U+FF45", "U+FF46", "U+FF47", "U+FF48", "U+FF49",
     "U+FF4A", "U+FF4B", "U+FF4C", "U+FF4D", "U+FF4E", "U+FF4F", "U+FF50", "U+FF51",
     "U+FF52", "U+FF53", "U+FF54", "U+FF55", "U+FF56", "U+FF57", "U+FF58", "U+FF59",
     "U+FF5A">>

\* The upper-case code unit of each, in the same order
UpperCaseUnits ==
    <<"U+039C", "U+00C0", "U+00C1", "U+00C2", "U+00C3", "U+00C4", "U+00C5", "U+00C6",
     "U+00C7", "U+00C8", "U+00C9", "U+00CA", "U+00CB", "U+00CC", "U+00CD", "U+00CE",
     "U+00CF", "U+00D0", "U+00D1", "U+00D2", "U+00D3", "U+00D4", "U+00D5", "U+00D6",
     "U+00D8", "U+00D9", "U+00DA", "U+00DB", "U+00DC", "U+00DD", "U+00DE", "U+0178",
     "U+0100", "U+0102", "U+0104", "U+0106", "U+0108", "U+010A", "U+010C", "U+010E",
     "U+0110", "U+0112", "U+0114", "U+0116", "U+0118", "U+011A", "U+011C", "U+011E",
     "U+0120", "U+0122", "U+0124", "U+0126", "U+0128", "U+012A", "U+012C", "U+012E",
     "I", "U+0132", "U+0134", "U+0136", "U+0139", "U+013B", "U+013D", "U+013F",
     "U+0141", "U+0143", "U+0145", "U+0147", "U+014A", "U+014C", "U+014E", "U+0150",
     "U+0152", "U+0154", "U+0156", "U+0158", "U+015A", "U+015C", "U+015E", "U+0160",
     "U+0162", "U+0164", "U+0166", "U+0168", "U+016A", "U+016C", "U+016E", "U+0170",
     "U+0172", "U+0174", "U+0176", "U+0179", "U+017B", "U+017D", "S", "U+0243",
     "U+0182", "U+0184", "U+0187", "U+018B", "U+0191", "U+01F6", "U+0198", "U+023D",
     "U+A7DC", "U+0220", "U+01A0", "U+01A2", "U+01A4", "U+01A7", "U+01AC", "U+01AF",
     "U+01B3", "U+01B5", "U+01B8", "U+01BC", "U+01F7", "U+01C4", "U+01C4", "U+01C7",
     "U+01C7", "U+01CA", "U+01CA", "U+01CD", "U+01CF", "U+01D1", "U+01D3", "U+01D5",
     "U+01D7", "U+01D9", "U+01DB", "U+018E", "U+01DE", "U+01E0", "U+01E2", "U+01E4",
     "U+01E6", "U+01E8", "U+01EA", "U+01EC", "U+01EE", "U+01F1", "U+01F1", "U+01F4",
     "U+01F8", "U+01FA", "U+01FC", "U+01FE", "U+0200", "U+0202", "U+0204", "U+0206",
     "U+0208", "U+020A", "U+020C", "U+020E", "U+0210", "U+0212", "U+0214", "U+0216",
     "U+0218", "U+021A", "U+021C", "U+021E", "U+0222", "U+0224", "U+0226", "U+0228",
     "U+022A", "U+022C", "U+022E", "U+0230", "U+0232", "U+023B", "U+2C7E", "U+2C7F",
     "U+0241", "U+0246", "U+0248", "U+024A", "U+024C", "U+024E", "U+2C6F", "U+2C6D",
     "U+2C70", "U+0181", "U+0186", "U+0189", "U+018A", "U+018F", "U+0190", "U+A7AB",
     "U+0193", "U+A7AC", "U+0194", "U+A7CB", "U+A78D", "U+A7AA", "U+0197", "U+0196",
     "U+A7AE", "U+2C62", "U+A7AD", "U+019C", "U+2C6E", "U+019D", "U+019F", "U+2C64",
     "U+01A6", "U+A7C5", "U+01A9", "U+A7B1", "U+01AE", "U+0244", "U+01B1", "U+01B2",
     "U+0245", "U+01B7", "U+A7B2", "U+A7B0", "U+0399", "U+0370", "U+0372", "U+0376",
     "U+03FD", "U+03FE", "U+03FF", "U+0386", "U+0388", "U+0389", "U+038A", "U+0391",
     "U+0392", "U+0393", "U+0394", "U+0395", "U+0396", "U+0397", "U+0398", "U+0399",
     "U+039A", "U+039B", "U+039C", "U+039D", "U+039E", "U+039F", "U+03A0", "U+03A1",
     "U+03A3", "U+03A3", "U+03A4", "U+03A5", "U+03A6", "U+03A7", "U+03A8", "U+03A9",
     "U+03AA", "U+03AB", "U+038C", "U+038E", "U+038F", "U+0392", "U+0398", "U+03A6",
     "U+03A0", "U+03CF", "U+03D8", "U+03DA", "U+03DC", "U+03DE", "U+03E0", "U+03E2",
     "U+03E4", "U+03E6", "U+03E8", "U+03EA", "U+03EC", "U+03EE", "U+039A", "U+03A1",
     "U+03F9", "U+037F", "U+0395", "U+03F7", "U+03FA", "U+0410", "U+0411", "U+0412",
     "U+0413", "U+0414", "U+0415", "U+0416", "U+0417", "U+0418", "U+0419", "U+041A",
     "U+041B", "U+041C", "U+041D", "U+041E", "U+041F", "U+0420", "U+0421", "U+0422",
     "U+0423", "U+0424", "U+0425", "U+0426", "U+0427", "U+0428", "U+0429", "U+042A",
     "U+042B", "U+042C", "U+042D", "U+042E", "U+042F", "U+0400", "U+0401", "U+0402",
     "U+0403", "U+0404", "U+0405", "U+0406", "U+0407", "U+0408", "U+0409", "U+040A",
     "U+040B", "U+040C", "U+040D", "U+040E", "U+040F", "U+0460", "U+0462", "U+0464",
     "U+0466", "U+0468", "U+046A", "U+046C", "U+046E", "U+0470", "U+0472", "U+0474",
     "U+0476", "U+0478", "U+047A", "U+047C", "U+047E", "U+0480", "U+048A", "U+048C",
     "U+048E", "U+0490", "U+0492", "U+0494", "U+0496", "U+0498", "U+049A", "U+049C",
     "U+049E", "U+04A0", "U+04A2", "U+04A4", "U+04A6", "U+04A8", "U+04AA", "U+04AC",
     "U+04AE", "U+04B0", "U+04B2", "U+04B4", "U+04B6", "U+04B8", "U+04BA", "U+04BC",
     "U+04BE", "U+04C1", "U+04C3", "U+04C5", "U+04C7", "U+04C9", "U+04CB", "U+04CD",
     "U+04C0", "U+04D0", "U+04D2", "U+04D4", "U+04D6", "U+04D8", "U+04DA", "U+04DC",
     "U+04DE", "U+04E0", "U+04E2", "U+04E4", "U+04E6", "U+04E8", "U+04EA", "U+04EC",
     "U+04EE", "U+04F0", "U+04F2", "U+04F4", "U+04F6", "U+04F8", "U+04FA", "U+04FC",
     "U+04FE", "U+0500", "U+0502", "U+0504", "U+0506", "U+0508", "U+050A", "U+050C",
     "U+050E", "U+0510", "U+0512", "U+0514", "U+0516", "U+0518", "U+051A", "U+051C",
     "U+051E", "U+0520", "U+0522", "U+0524", "U+0526", "U+0528", "U+052A", "U+052C",
     "U+052E", "U+0531", "U+0532", "U+0533", "U+0534", "U+0535", "U+0536", "U+0537",
     "U+0538", "U+0539", "U+053A", "U+053B", "U+053C", "U+053D", "U+053E", "U+053F",
     "U+0540", "U+0541", "U+0542", "U+0543", "U+0544", "U+0545", "U+0546", "U+0547",
     "U+0548", "U+0549", "U+054A", "U+054B", "U+054C", "U+054D", "U+054E", "U+054F",
     "U+0550", "U+0551", "U+0552", "U+0553", "U+0554", "U+0555", "U+0556", "U+1C90",
     "U+1C91", "U+1C92", "U+1C93", "U+1C94", "U+1C95", "U+1C96", "U+1C97", "U+1C98",
     "U+1C99", "U+1C9A", "U+1C9B", "U+1C9C", "U+1C9D", "U+1C9E", "U+1C9F", "U+1CA0",
     "U+1CA1", "U+1CA2", "U+1CA3", "U+1CA4", "U+1CA5", "U+1CA6", "U+1CA7", "U+1CA8",
     "U+1CA9", "U+1CAA", "U+1CAB", "U+1CAC", "U+1CAD", "U+1CAE", "U+1CAF", "U+1CB0",
     "U+1CB1", "U+1CB2", "U+1CB3", "U+1CB4", "U+1CB5", "U+1CB6", "U+1CB7", "U+1CB8",
     "U+1CB9", "U+1CBA", "U+1CBD", "U+1CBE", "U+1CBF", "U+13F0", "U+13F1", "U+13F2",
     "U+13F3", "U+13F4", "U+13F5", "U+0412", "U+0414", "U+041E", "U+0421", "U+0422",
     "U+0422", "U+042A", "U+0462", "U+A64A", "U+1C89", "U+A77D", "U+2C63", "U+A7C6",
     "U+1E00", "U+1E02", "U+1E04", "U+1E06", "U+1E08", "U+1E0A", "U+1E0C", "U+1E0E",
     "U+1E10", "U+1E12", "U+1E14", "U+1E16", "U+1E18", "U+1E1A", "U+1E1C", "U+1E1E",
     "U+1E20", "U+1E22", "U+1E24", "U+1E26", "U+1E28", "U+1E2A", "U+1E2C", "U+1E2E",
     "U+1E30", "U+1E32", "U+1E34", "U+1E36", "U+1E38", "U+1E3A", "U+1E3C", "U+1E3E",
     "U+1E40", "U+1E42", "U+1E44", "U+1E46", "U+1E48", "U+1E4A", "U+1E4C", "U+1E4E",
     "U+1E50", "U+1E52", "U+1E54", "U+1E56", "U+1E58", "U+1E5A", "U+1E5C", "U+1E5E",
     "U+1E60", "U+1E62", "U+1E64", "U+1E66", "U+1E68", "U+1E6A", "U+1E6C", "U+1E6E",
     "U+1E70", "U+1E72", "U+1E74", "U+1E76", "U+1E78", "U+1E7A", "U+1E7C", "U+1E7E",
     "U+1E80", "U+1E82", "U+1E84", "U+1E86", "U+1E88", "U+1E8A", "U+1E8C", "U+1E8E",
     "U+1E90", "U+1E92", "U+1E94", "U+1E60", "U+1EA0", "U+1EA2", "U+1EA4", "U+1EA6",
     "U+1EA8", "U+1EAA", "U+1EAC", "U+1EAE", "U+1EB0", "U+1EB2", "U+1EB4", "U+1EB6",
     "U+1EB8", "U+1EBA", "U+1EBC", "U+1EBE", "U+1EC0", "U+1EC2", "U+1EC4", "U+1EC6",
     "U+1EC8", "U+1ECA", "U+1ECC", "U+1ECE", "U+1ED0", "U+1ED2", "U+1ED4", "U+1ED6",
     "U+1ED8", "U+1EDA", "U+1EDC", "U+1EDE", "U+1EE0", "U+1EE2", "U+1EE4", "U+1EE6",
     "U+1EE8", "U+1EEA", "U+1EEC", "U+1EEE", "U+1EF0", "U+1EF2", "U+1EF4", "U+1EF6",
     "U+1EF8", "U+1EFA", "U+1EFC", "U+1EFE", "U+1F08", "U+1F09", "U+1F0A", "U+1F0B",
     "U+1F0C", "U+1F0D", "U+1F0E", "U+1F0F", "U+1F18", "U+1F19", "U+1F1A", "U+1F1B",
     "U+1F1C", "U+1F1D", "U+1F28", "U+1F29", "U+1F2A", "U+1F2B", "U+1F2C", "U+1F2D",
     "U+1F2E", "U+1F2F", "U+1F38", "U+1F39", "U+1F3A", "U+1F3B", "U+1F3C", "U+1F3D",
     "U+1F3E", "U+1F3F", "U+1F48", "U+1F49", "U+1F4A", "U+1F4B", "U+1F4C", "U+1F4D",
     "U+1F59", "U+1F5B", "U+1F5D", "U+1F5F", "U+1F68", "U+1F69", "U+1F6A", "U+1F6B",
     "U+1F6C", "U+1F6D", "U+1F6E", "U+1F6F", "U+1FBA", "U+1FBB", "U+1FC8", "U+1FC9",
     "U+1FCA", "U+1FCB", "U+1FDA", "U+1FDB", "U+1FF8", "U+1FF9", "U+1FEA", "U+1FEB",
     "U+1FFA", "U+1FFB", "U+1FB8", "U+1FB9", "U+0399", "U+1FD8", "U+1FD9", "U+1FE8",
     "U+1FE9", "U+1FEC", "U+2132", "U+2160", "U+2161", "U+2162", "U+2163", "U+2164",
     "U+2165", "U+2166", "U+2167", "U+2168", "U+2169", "U+216A", "U+216B", "U+216C",
     "U+216D", "U+216E", "U+216F", "U+2183", "U+24B6", "U+24B7", "U+24B8", "U+24B9",
     "U+24BA", "U+24BB", "U+24BC", "U+24BD", "U+24BE", "U+24BF", "U+24C0", "U+24C1",
     "U+24C2", "U+24C3", "U+24C4", "U+24C5", "U+24C6", "U+24C7", "U+24C8", "U+24C9",
     "U+24CA", "U+24CB", "U+24CC", "U+24CD", "U+24CE", "U+24CF", "U+2C00", "U+2C01",
     "U+2C02", "U+2C03", "U+2C04", "U+2C05", "U+2C06", "U+2C07", "U+2C08", "U+2C09",
     "U+2C0A", "U+2C0B", "U+2C0C", "U+2C0D", "U+2C0E", "U+2C0F", "U+2C10", "U+2C11",
     "U+2C12", "U+2C13", "U+2C14", "U+2C15", "U+2C16", "U+2C17", "U+2C18", "U+2C19",
     "U+2C1A", "U+2C1B", "U+2C1C", "U+2C1D", "U+2C1E", "U+2C1F", "U+2C20", "U+2C21",
     "U+2C22", "U+2C23", "U+2C24", "U+2C25", "U+2C26", "U+2C27", "U+2C28", "U+2C29",
     "U+2C2A", "U+2C2B", "U+2C2C", "U+2C2D", "U+2C2E", "U+2C2F", "U+2C60", "U+023A",
     "U+023E", "U+2C67", "U+2C69", "U+2C6B", "U+2C72", "U+2C75", "U+2C80", "U+2C82",
     "U+2C84", "U+2C86", "U+2C88", "U+2C8A", "U+2C8C", "U+2C8E", "U+2C90", "U+2C92",
     "U+2C94", "U+2C96", "U+2C98", "U+2C9A", "U+2C9C", "U+2C9E", "U+2CA0", "U+2CA2",
     "U+2CA4", "U+2CA6", "U+2CA8", "U+2CAA", "U+2CAC", "U+2CAE", "U+2CB0", "U+2CB2",
     "U+2CB4", "U+2CB6", "U+2CB8", "U+2CBA", "U+2CBC", "U+2CBE", "U+2CC0", "U+2CC2",
     "U+2CC4", "U+2CC6", "U+2CC8", "U+2CCA", "U+2CCC", "U+2CCE", "U+2CD0", "U+2CD2",
     "U+2CD4", "U+2CD6", "U+2CD8", "U+2CDA", "U+2CDC", "U+2CDE", "U+2CE0", "U+2CE2",
     "U+2CEB", "U+2CED", "U+2CF2", "U+10A0", "U+10A1", "U+10A2", "U+10A3", "U+10A4",
     "U+10A5", "U+10A6", "U+10A7", "U+10A8", "U+10A9", "U+10AA", "U+10AB", "U+10AC",
     "U+10AD", "U+10AE", "U+10AF", "U+10B0", "U+10B1", "U+10B2", "U+10B3", "U+10B4",
     "U+10B5", "U+10B6", "U+10B7", "U+10B8", "U+10B9", "U+10BA", "U+10BB", "U+10BC",
     "U+10BD", "U+10BE", "U+10BF", "U+10C0", "U+10C1", "U+10C2", "U+10C3", "U+10C4",
     "U+10C5", "U+10C7", "U+10CD", "U+A640", "U+A642", "U+A644", "U+A646", "U+A648",
     "U+A64A", "U+A64C", "U+A64E", "U+A650", "U+A652", "U+A654", "U+A656", "U+A658",
     "U+A65A", "U+A65C", "U+A65E", "U+A660", "U+A662", "U+A664", "U+A666", "U+A668",
     "U+A66A", "U+A66C", "U+A680", "U+A682", "U+A684", "U+A686", "U+A688", "U+A68A",
     "U+A68C", "U+A68E", "U+A690", "U+A692", "U+A694", "U+A696", "U+A698", "U+A69A",
     "U+A722", "U+A724", "U+A726", "U+A728", "U+A72A", "U+A72C", "U+A72E", "U+A732",
     "U+A734", "U+A736", "U+A738", "U+A73A", "U+A73C", "U+A73E", "U+A740", "U+A742",
     "U+A744", "U+A746", "U+A748", "U+A74A", "U+A74C", "U+A74E", "U+A750", "U+A752",
     "U+A754", "U+A756", "U+A758", "U+A75A", "U+A75C", "U+A75E", "U+A760", "U+A762",
     "U+A764", "U+A766", "U+A768", "U+A76A", "U+A76C", "U+A76E", "U+A779", "U+A77B",
     "U+A77E", "U+A780", "U+A782", "U+A784", "U+A786", "U+A78B", "U+A790", "U+A792",
     "U+A7C4", "U+A796", "U+A798", "U+A79A", "U+A79C", "U+A79E", "U+A7A0", "U+A7A2",
     "U+A7A4", "U+A7A6", "U+A7A8", "U+A7B4", "U+A7B6", "U+A7B8", "U+A7BA", "U+A7BC",
     "U+A7BE", "U+A7C0", "U+A7C2", "U+A7C7", "U+A7C9", "U+A7CC", "U+A7CE", "U+A7D0",
     "U+A7D2", "U+A7D4", "U+A7D6", "U+A7D8", "U+A7DA", "U+A7F5", "U+A7B3", "U+13A0",
     "U+13A1", "U+13A2", "U+13A3", "U+13A4", "U+13A5", "U+13A6", "U+13A7", "U+13A8",
     "U+13A9", "U+13AA", "U+13AB", "U+13AC", "U+13AD", "U+13AE", "U+13AF", "U+13B0",
     "U+13B1", "U+13B2", "U+13B3", "U+13B4", "U+13B5", "U+13B6", "U+13B7", "U+13B8",
     "U+13B9", "U+13BA", "U+13BB", "U+13BC", "U+13BD", "U+13BE", "U+13BF", "U+13C0",
     "U+13C1", "U+13C2", "U+13C3", "U+13C4", "U+13C5", "U+13C6", "U+13C7", "U+13C8",
     "U+13C9", "U+13CA", "U+13CB", "U+13CC", "U+13CD", "U+13CE", "U+13CF", "U+13D0",
     "U+13D1", "U+13D2", "U+13D3", "U+13D4", "U+13D5", "U+13D6", "U+13D7", "U+13D8",
     "U+13D9", "U+13DA", "U+13DB", "U+13DC", "U+13DD", "U+13DE", "U+13DF", "U+13E0",
     "U+13E1", "U+13E2", "U+13E3", "U+13E4", "U+13E5", "U+13E6", "U+13E7", "U+13E8",
     "U+13E9", "U+13EA", "U+13EB", "U+13EC", "U+13ED", "U+13EE", "U+13EF", "U+FF21",
     "U+FF22", "U+FF23", "U+FF24", "U+FF25", "U+FF26", "U+FF27", "U+FF28", "U+FF29",
     "U+FF2A", "U+FF2B", "U+FF2C", "U+FF2D", "U+FF2E", "U+FF2F", "U+FF30", "U+FF31",
     "U+FF32", "U+FF33", "U+FF34", "U+FF35", "U+FF36", "U+FF37", "U+FF38", "U+FF39",
     "U+FF3A">>

\* The code units whose upper-case text is longer than one code unit
LengthenedUnits ==
    <<"U+00DF", "U+0149", "U+01F0", "U+0390", "U+03B0", "U+0587", "U+1E96", "U+1E97",
     "U+1E98", "U+1E99", "U+1E9A", "U+1F50", "U+1F52", "U+1F54", "U+1F56", "U+1F80",
     "U+1F81", "U+1F82", "U+1F83", "U+1F84", "U+1F85", "U+1F86", "U+1F87", "U+1F88",
     "U+1F89", "U+1F8A", "U+1F8B", "U+1F8C", "U+1F8D", "U+1F8E", "U+1F8F", "U+1F90",
     "U+1F91", "U+1F92", "U+1F93", "U+1F94", "U+1F95", "U+1F96", "U+1F97", "U+1F98",
     "U+1F99", "U+1F9A", "U+1F9B", "U+1F9C", "U+1F9D", "U+1F9E", "U+1F9F", "U+1FA0",
     "U+1FA1", "U+1FA2", "U+1FA3", "U+1FA4", "U+1FA5", "U+1FA6", "U+1FA7", "U+1FA8",
     "U+1FA9", "U+1FAA", "U+1FAB", "U+1FAC", "U+1FAD", "U+1FAE", "U+1FAF", "U+1FB2",
     "U+1FB3", "U+1FB4", "U+1FB6", "U+1FB7", "U+1FBC", "U+1FC2", "U+1FC3", "U+1FC4",
     "U+1FC6", "U+1FC7", "U+1FCC", "U+1FD2", "U+1FD3", "U+1FD6", "U+1FD7", "U+1FE2",
     "U+1FE3", "U+1FE4", "U+1FE6", "U+1FE7", "U+1FF2", "U+1FF3", "U+1FF4", "U+1FF6",
     "U+1FF7", "U+1FFC", "U+FB00", "U+FB01", "U+FB02", "U+FB03", "U+FB04", "U+FB05",
     "U+FB06", "U+FB13", "U+FB14", "U+FB15", "U+FB16", "U+FB17">>

\* The first, second and third code unit of the upper-case text of each
\* ("" where the text has only two)
LengthenedFirst ==
    <<"S", "U+02BC", "J", "U+0399", "U+03A5", "U+0535", "H", "T",
     "W", "Y", "A", "U+03A5", "U+03A5", "U+03A5", "U+03A5", "U+1F08",
     "U+1F09", "U+1F0A", "U+1F0B", "U+1F0C", "U+1F0D", "U+1F0E", "U+1F0F", "U+1F08",
     "U+1F09", "U+1F0A", "U+1F0B", "U+1F0C", "U+1F0D", "U+1F0E", "U+1F0F", "U+1F28",
     "U+1F29", "U+1F2A", "U+1F2B", "U+1F2C", "U+1F2D", "U+1F2E", "U+1F2F", "U+1F28",
     "U+1F29", "U+1F2A", "U+1F2B", "U+1F2C", "U+1F2D", "U+1F2E", "U+1F2F", "U+1F68",
     "U+1F69", "U+1F6A", "U+1F6B", "U+1F6C", "U+1F6D", "U+1F6E", "U+1F6F", "U+1F68",
     "U+1F69", "U+1F6A", "U+1F6B", "U+1F6C", "U+1F6D", "U+1F6E", "U+1F6F", "U+1FBA",
     "U+0391", "U+0386", "U+0391", "U+0391", "U+0391", "U+1FCA", "U+0397", "U+0389",
     "U+0397", "U+0397", "U+0397", "U+0399", "U+0399", "U+0399", "U+0399", "U+03A5",
     "U+03A5", "U+03A1", "U+03A5", "U+03A5", "U+1FFA", "U+03A9", "U+038F", "U+03A9",
     "U+03A9", "U+03A9", "F", "F", "F", "F", "F", "S",
     "S", "U+0544", "U+0544", "U+0544", "U+054E", "U+0544">>

LengthenedSecond ==
    <<"S", "N", "U+030C", "U+0308", "U+0308", "U+0552", "U+0331", "U+0308",
     "U+030A", "U+030A", "U+02BE", "U+0313", "U+0313", "U+0313", "U+0313", "U+0399",
     "U+0399", "U+0399", "U+0399", "U+0399", "U+0399", "U+0399", "U+0399", "U+0399",
     "U+0399", "U+0399", "U+0399", "U+0399", "U+0399", "U+0399", "U+0399", "U+0399",
     "U+0399", "U+0399", "U+0399", "U+0399", "U+0399", "U+0399", "U+0399", "U+0399",
     "U+0399", "U+0399", "U+0399", "U+0399", "U+0399", "U+0399", "U+0399", "U+0399",
     "U+0399", "U+0399", "U+0399", "U+0399", "U+0399", "U+0399", "U+0399", "U+0399",
     "U+0399", "U+0399", "U+0399", "U+0399", "U+0399", "U+0399", "U+0399", "U+0399",
     "U+0399", "U+0399", "U+0342", "U+0342", "U+0399", "U+0399", "U+0399", "U+0399",
     "U+0342", "U+0342", "U+0399", "U+0308", "U+0308", "U+0342", "U+0308", "U+0308",
     "U+0308", "U+0313", "U+0342", "U+0308", "U+0399", "U+0399", "U+0399", "U+0342",
     "U+0342", "U+0399", "F", "I", "L", "F", "F", "T",
     "T", "U+0546", "U+0535", "U+053B", "U+0546", "U+053D">>

LengthenedThird ==
    <<"", "", "", "U+0301", "U+0301", "", "", "",
     "", "", "", "", "U+0300", "U+0301", "U+0342", "",
     "", "", "", "", "", "", "", "",
     "", "", "", "", "", "", "", "",
     "", "", "", "", "", "", "", "",
     "", "", "", "", "", "", "", "",
     "", "", "", "", "", "", "", "",
     "", "", "", "", "", "", "", "",
     "", "", "", "U+0399", "", "", "", "",
     "", "U+0399", "", "U+0300", "U+0301", "", "U+0342", "U+0300",
     "U+0301", "", "", "U+0342", "", "", "", "",
     "U+0399", "", "", "", "", "I", "L", "",
     "", "", "", "", "", "">>

\* The cased characters beyond U+FFFF, as surrogate pairs: the high and the
\* low surrogate of each
PairHigh ==
    <<"U+D801", "U+D801", "U+D801", "U+D801", "U+D801", "U+D801", "U+D801", "U+D801",
     "U+D801", "U+D801", "U+D801", "U+D801", "U+D801", "U+D801", "U+D801", "U+D801",
     "U+D801", "U+D801", "U+D801", "U+D801", "U+D801", "U+D801", "U+D801", "U+D801",
     "U+D801", "U+D801", "U+D801", "U+D801", "U+D801", "U+D801", "U+D801", "U+D801",
     "U+D801", "U+D801", "U+D801", "U+D801", "U+D801", "U+D801", "U+D801", "U+D801",
     "U+D801", "U+D801", "U+D801", "U+D801", "U+D801", "U+D801", "U+D801", "U+D801",
     "U+D801", "U+D801", "U+D801", "U+D801", "U+D801", "U+D801", "U+D801", "U+D801",
     "U+D801", "U+D801", "U+D801", "U+D801", "U+D801", "U+D801", "U+D801", "U+D801",
     "U+D801", "U+D801", "U+D801", "U+D801", "U+D801", "U+D801", "U+D801", "U+D801",
     "U+D801", "U+D801", "U+D801", "U+D801", "U+D801", "U+D801", "U+D801", "U+D801",
     "U+D801", "U+D801", "U+D801", "U+D801", "U+D801", "U+D801", "U+D801", "U+D801",
     "U+D801", "U+D801", "U+D801", "U+D801", "U+D801", "U+D801", "U+D801", "U+D801",
     "U+D801", "U+D801", "U+D801", "U+D801", "U+D801", "U+D801", "U+D801", "U+D801",
     "U+D801", "U+D801", "U+D801", "U+D801", "U+D801", "U+D801", "U+D801", "U+D803",
     "U+D803", "U+D803", "U+D803", "U+D803", "U+D803", "U+D803", "U+D803", "U+D803",
     "U+D803", "U+D803", "U+D803", "U+D803", "U+D803", "U+D803", "U+D803", "U+D803",
     "U+D803", "U+D803", "U+D803", "U+D803", "U+D803", "U+D803", "U+D803", "U+D803",
     "U+D803", "U+D803", "U+D803", "U+D803", "U+D803", "U+D803", "U+D803", "U+D803",
     "U+D803", "U+D803", "U+D803", "U+D803", "U+D803", "U+D803", "U+D803", "U+D803",
     "U+D803", "U+D803", "U+D803", "U+D803", "U+D803", "U+D803", "U+D803", "U+D803",
     "U+D803", "U+D803", "U+D803", "U+D803", "U+D803", "U+D803", "U+D803", "U+D803",
     "U+D803", "U+D803", "U+D803", "U+D803", "U+D803", "U+D803", "U+D803", "U+D803",
     "U+D803", "U+D803", "U+D803", "U+D803", "U+D803", "U+D803", "U+D803", "U+D803",
     "U+D806", "U+D806", "U+D806", "U+D806", "U+D806", "U+D806", "U+D806", "U+D806",
     "U+D806", "U+D806", "U+D806", "U+D806", "U+D806", "U+D806", "U+D806", "U+D806",
     "U+D806", "U+D806", "U+D806", "U+D806", "U+D806", "U+D806", "U+D806", "U+D806",
     "U+D806", "U+D806", "U+D806", "U+D806", "U+D806", "U+D806", "U+D806", "U+D806",
     "U+D81B", "U+D81B", "U+D81B", "U+D81B", "U+D81B", "U+D81B", "U+D81B", "U+D81B",
     "U+D81B", "U+D81B", "U+D81B", "U+D81B", "U+D81B", "U+D81B", "U+D81B", "U+D81B",
     "U+D81B", "U+D81B", "U+D81B", "U+D81B", "U+D81B", "U+D81B", "U+D81B", "U+D81B",
     "U+D81B", "U+D81B", "U+D81B", "U+D81B", "U+D81B", "U+D81B", "U+D81B", "U+D81B",
     "U+D81B", "U+D81B", "U+D81B", "U+D81B", "U+D81B", "U+D81B", "U+D81B", "U+D81B",
     "U+D81B", "U+D81B", "U+D81B", "U+D81B", "U+D81B", "U+D81B", "U+D81B", "U+D81B",
     "U+D81B", "U+D81B", "U+D81B", "U+D81B", "U+D81B", "U+D81B", "U+D81B", "U+D81B",
     "U+D81B", "U+D83A", "U+D83A", "U+D83A", "U+D83A", "U+D83A", "U+D83A", "U+D83A",
     "U+D83A", "U+D83A", "U+D83A", "U+D83A", "U+D83A", "U+D83A", "U+D83A", "U+D83A",
     "U+D83A", "U+D83A", "U+D83A", "U+D83A", "U+D83A", "U+D83A", "U+D83A", "U+D83A",
     "U+D83A", "U+D83A", "U+D83A", "U+D83A", "U+D83A", "U+D83A", "U+D83A", "U+D83A",
     "U+D83A", "U+D83A", "U+D83A">>

PairLow ==
    <<"U+DC28", "U+DC29", "U+DC2A", "U+DC2B", "U+DC2C", "U+DC2D", "U+DC2E", "U+DC2F",
     "U+DC30", "U+DC31", "U+DC32", "U+DC33", "U+DC34", "U+DC35", "U+DC36", "U+DC37",
     "U+DC38", "U+DC39", "U+DC3A", "U+DC3B", "U+DC3C", "U+DC3D", "U+DC3E", "U+DC3F",
     "U+DC40", "U+DC41", "U+DC42", "U+DC43", "U+DC44", "U+DC45", "U+DC46", "U+DC47",
     "U+DC48", "U+DC49", "U+DC4A", "U+DC4B", "U+DC4C", "U+DC4D", "U+DC4E", "U+DC4F",
     "U+DCD8", "U+DCD9", "U+DCDA", "U+DCDB", "U+DCDC", "U+DCDD", "U+DCDE", "U+DCDF",
     "U+DCE0", "U+DCE1", "U+DCE2", "U+DCE3", "U+DCE4", "U+DCE5", "U+DCE6", "U+DCE7",
     "U+DCE8", "U+DCE9", "U+DCEA", "U+DCEB", "U+DCEC", "U+DCED", "U+DCEE", "U+DCEF",
     "U+DCF0", "U+DCF1", "U+DCF2", "U+DCF3", "U+DCF4", "U+DCF5", "U+DCF6", "U+DCF7",
     "U+DCF8", "U+DCF9", "U+DCFA", "U+DCFB", "U+DD97", "U+DD98", "U+DD99", "U+DD9A",
     "U+DD9B", "U+DD9C", "U+DD9D", "U+DD9E", "U+DD9F", "U+DDA0", "U+DDA1", "U+DDA3",
     "U+DDA4", "U+DDA5", "U+DDA6", "U+DDA7", "U+DDA8", "U+DDA9", "U+DDAA", "U+DDAB",
     "U+DDAC", "U+DDAD", "U+DDAE", "U+DDAF", "U+DDB0", "U+DDB1", "U+DDB3", "U+DDB4",
     "U+DDB5", "U+DDB6", "U+DDB7", "U+DDB8", "U+DDB9", "U+DDBB", "U+DDBC", "U+DCC0",
     "U+DCC1", "U+DCC2", "U+DCC3", "U+DCC4", "U+DCC5", "U+DCC6", "U+DCC7", "U+DCC8",
     "U+DCC9", "U+DCCA", "U+DCCB", "U+DCCC", "U+DCCD", "U+DCCE", "U+DCCF", "U+DCD0",
     "U+DCD1", "U+DCD2", "U+DCD3", "U+DCD4", "U+DCD5", "U+DCD6", "U+DCD7", "U+DCD8",
     "U+DCD9", "U+DCDA", "U+DCDB", "U+DCDC", "U+DCDD", "U+DCDE", "U+DCDF", "U+DCE0",
     "U+DCE1", "U+DCE2", "U+DCE3", "U+DCE4", "U+DCE5", "U+DCE6", "U+DCE7", "U+DCE8",
     "U+DCE9", "U+DCEA", "U+DCEB", "U+DCEC", "U+DCED", "U+DCEE", "U+DCEF", "U+DCF0",
     "U+DCF1", "U+DCF2", "U+DD70", "U+DD71", "U+DD72", "U+DD73", "U+DD74", "U+DD75",
     "U+DD76", "U+DD77", "U+DD78", "U+DD79", "U+DD7A", "U+DD7B", "U+DD7C", "U+DD7D",
     "U+DD7E", "U+DD7F", "U+DD80", "U+DD81", "U+DD82", "U+DD83", "U+DD84", "U+DD85",
     "U+DCC0", "U+DCC1", "U+DCC2", "U+DCC3", "U+DCC4", "U+DCC5", "U+DCC6", "U+DCC7",
     "U+DCC8", "U+DCC9", "U+DCCA", "U+DCCB", "U+DCCC", "U+DCCD", "U+DCCE", "U+DCCF",
     "U+DCD0", "U+DCD1", "U+DCD2", "U+DCD3", "U+DCD4", "U+DCD5", "U+DCD6", "U+DCD7",
     "U+DCD8", "U+DCD9", "U+DCDA", "U+DCDB", "U+DCDC", "U+DCDD", "U+DCDE", "U+DCDF",
     "U+DE60", "U+DE61", "U+DE62", "U+DE63", "U+DE64", "U+DE65", "U+DE66", "U+DE67",
     "U+DE68", "U+DE69", "U+DE6A", "U+DE6B", "U+DE6C", "U+DE6D", "U+DE6E", "U+DE6F",
     "U+DE70", "U+DE71", "U+DE72", "U+DE73", "U+DE74", "U+DE75", "U+DE76", "U+DE77",
     "U+DE78", "U+DE79", "U+DE7A", "U+DE7B", "U+DE7C", "U+DE7D", "U+DE7E", "U+DE7F",
     "U+DEBB", "U+DEBC", "U+DEBD", "U+DEBE", "U+DEBF", "U+DEC0", "U+DEC1", "U+DEC2",
     "U+DEC3", "U+DEC4", "U+DEC5", "U+DEC6", "U+DEC7", "U+DEC8", "U+DEC9", "U+DECA",
     "U+DECB", "U+DECC", "U+DECD", "U+DECE", "U+DECF", "U+DED0", "U+DED1", "U+DED2",
     "U+DED3", "U+DD22", "U+DD23", "U+DD24", "U+DD25", "U+DD26", "U+DD27", "U+DD28",
     "U+DD29", "U+DD2A", "U+DD2B", "U+DD2C", "U+DD2D", "U+DD2E", "U+DD2F", "U+DD30",
     "U+DD31", "U+DD32", "U+DD33", "U+DD34", "U+DD35", "U+DD36", "U+DD37", "U+DD38",
     "U+DD39", "U+DD3A", "U+DD3B", "U+DD3C", "U+DD3D", "U+DD3E", "U+DD3F", "U+DD40",
     "U+DD41", "U+DD42", "U+DD43">>

\* The surrogates of the upper-case character of each, in the same order
UpperPairHigh ==
    <<"U+D801", "U+D801", "U+D801", "U+D801", "U+D801", "U+D801", "U+D801", "U+D801",
     "U+D801", "U+D801", "U+D801", "U+D801", "U+D801", "U+D801", "U+D801", "U+D801",
     "U+D801", "U+D801", "U+D801", "U+D801", "U+D801", "U+D801", "U+D801", "U+D801",
     "U+D801", "U+D801", "U+D801", "U+D801", "U+D801", "U+D801", "U+D801", "U+D801",
     "U+D801", "U+D801", "U+D801", "U+D801", "U+D801", "U+D801", "U+D801", "U+D801",
     "U+D801", "U+D801", "U+D801", "U+D801", "U+D801", "U+D801", "U+D801", "U+D801",
     "U+D801", "U+D801", "U+D801", "U+D801", "U+D801", "U+D801", "U+D801", "U+D801",
     "U+D801", "U+D801", "U+D801", "U+D801", "U+D801", "U+D801", "U+D801", "U+D801",
     "U+D801", "U+D801", "U+D801", "U+D801", "U+D801", "U+D801", "U+D801", "U+D801",
     "U+D801", "U+D801", "U+D801", "U+D801", "U+D801", "U+D801", "U+D801", "U+D801",
     "U+D801", "U+D801", "U+D801", "U+D801", "U+D801", "U+D801", "U+D801", "U+D801",
     "U+D801", "U+D801", "U+D801", "U+D801", "U+D801", "U+D801", "U+D801", "U+D801",
     "U+D801", "U+D801", "U+D801", "U+D801", "U+D801", "U+D801", "U+D801", "U+D801",
     "U+D801", "U+D801", "U+D801", "U+D801", "U+D801", "U+D801", "U+D801", "U+D803",
     "U+D803", "U+D803", "U+D803", "U+D803", "U+D803", "U+D803", "U+D803", "U+D803",
     "U+D803", "U+D803", "U+D803", "U+D803", "U+D803", "U+D803", "U+D803", "U+D803",
     "U+D803", "U+D803", "U+D803", "U+D803", "U+D803", "U+D803", "U+D803", "U+D803",
     "U+D803", "U+D803", "U+D803", "U+D803", "U+D803", "U+D803", "U+D803", "U+D803",
     "U+D803", "U+D803", "U+D803", "U+D803", "U+D803", "U+D803", "U+D803", "U+D803",
     "U+D803", "U+D803", "U+D803", "U+D803", "U+D803", "U+D803", "U+D803", "U+D803",
     "U+D803", "U+D803", "U+D803", "U+D803", "U+D803", "U+D803", "U+D803", "U+D803",
     "U+D803", "U+D803", "U+D803", "U+D803", "U+D803", "U+D803", "U+D803", "U+D803",
     "U+D803", "U+D803", "U+D803", "U+D803", "U+D803", "U+D803", "U+D803", "U+D803",
     "U+D806", "U+D806", "U+D806", "U+D806", "U+D806", "U+D806", "U+D806", "U+D806",
     "U+D806", "U+D806", "U+D806", "U+D806", "U+D806", "U+D806", "U+D806", "U+D806",
     "U+D806", "U+D806", "U+D806", "U+D806", "U+D806", "U+D806", "U+D806", "U+D806",
     "U+D806", "U+D806", "U+D806", "U+D806", "U+D806", "U+D806", "U+D806", "U+D806",
     "U+D81B", "U+D81B", "U+D81B", "U+D81B", "U+D81B", "U+D81B", "U+D81B", "U+D81B",
     "U+D81B", "U+D81B", "U+D81B", "U+D81B", "U+D81B", "U+D81B", "U+D81B", "U+D81B",
     "U+D81B", "U+D81B", "U+D81B", "U+D81B", "U+D81B", "U+D81B", "U+D81B", "U+D81B",
     "U+D81B", "U+D81B", "U+D81B", "U+D81B", "U+D81B", "U+D81B", "U+D81B", "U+D81B",
     "U+D81B", "U+D81B", "U+D81B", "U+D81B", "U+D81B", "U+D81B", "U+D81B", "U+D81B",
     "U+D81B", "U+D81B", "U+D81B", "U+D81B", "U+D81B", "U+D81B", "U+D81B", "U+D81B",
     "U+D81B", "U+D81B", "U+D81B", "U+D81B", "U+D81B", "U+D81B", "U+D81B", "U+D81B",
     "U+D81B", "U+D83A", "U+D83A", "U+D83A", "U+D83A", "U+D83A", "U+D83A", "U+D83A",
     "U+D83A", "U+D83A", "U+D83A", "U+D83A", "U+D83A", "U+D83A", "U+D83A", "U+D83A",
     "U+D83A", "U+D83A", "U+D83A", "U+D83A", "U+D83A", "U+D83A", "U+D83A", "U+D83A",
     "U+D83A", "U+D83A", "U+D83A", "U+D83A", "U+D83A", "U+D83A", "U+D83A", "U+D83A",
     "U+D83A", "U+D83A", "U+D83A">>

UpperPairLow ==
    <<"U+DC00", "U+DC01", "U+DC02", "U+DC03", "U+DC04", "U+DC05", "U+DC06", "U+DC07",
     "U+DC08", "U+DC09", "U+DC0A", "U+DC0B", "U+DC0C", "U+DC0D", "U+DC0E", "U+DC0F",
     "U+DC10", "U+DC11", "U+DC12", "U+DC13", "U+DC14", "U+DC15", "U+DC16", "U+DC17",
     "U+DC18", "U+DC19", "U+DC1A", "U+DC1B", "U+DC1C", "U+DC1D", "U+DC1E", "U+DC1F",
     "U+DC20", "U+DC21", "U+DC22", "U+DC23", "U+DC24", "U+DC25", "U+DC26", "U+DC27",
     "U+DCB0", "U+DCB1", "U+DCB2", "U+DCB3", "U+DCB4", "U+DCB5", "U+DCB6", "U+DCB7",
     "U+DCB8", "U+DCB9", "U+DCBA", "U+DCBB", "U+DCBC", "U+DCBD", "U+DCBE", "U+DCBF",
     "U+DCC0", "U+DCC1", "U+DCC2", "U+DCC3", "U+DCC4", "U+DCC5", "U+DCC6", "U+DCC7",
     "U+DCC8", "U+DCC9", "U+DCCA", "U+DCCB", "U+DCCC", "U+DCCD", "U+DCCE", "U+DCCF",
     "U+DCD0", "U+DCD1", "U+DCD2", "U+DCD3", "U+DD70", "U+DD71", "U+DD72", "U+DD73",
     "U+DD74", "U+DD75", "U+DD76", "U+DD77", "U+DD78", "U+DD79", "U+DD7A", "U+DD7C",
     "U+DD7D", "U+DD7E", "U+DD7F", "U+DD80", "U+DD81", "U+DD82", "U+DD83", "U+DD84",
     "U+DD85", "U+DD86", "U+DD87", "U+DD88", "U+DD89", "U+DD8A", "U+DD8C", "U+DD8D",
     "U+DD8E", "U+DD8F", "U+DD90", "U+DD91", "U+DD92", "U+DD94", "U+DD95", "U+DC80",
     "U+DC81", "U+DC82", "U+DC83", "U+DC84", "U+DC85", "U+DC86", "U+DC87", "U+DC88",
     "U+DC89", "U+DC8A", "U+DC8B", "U+DC8C", "U+DC8D", "U+DC8E", "U+DC8F", "U+DC90",
     "U+DC91", "U+DC92", "U+DC93", "U+DC94", "U+DC95", "U+DC96", "U+DC97", "U+DC98",
     "U+DC99", "U+DC9A", "U+DC9B", "U+DC9C", "U+DC9D", "U+DC9E", "U+DC9F", "U+DCA0",
     "U+DCA1", "U+DCA2", "U+DCA3", "U+DCA4", "U+DCA5", "U+DCA6", "U+DCA7", "U+DCA8",
     "U+DCA9", "U+DCAA", "U+DCAB", "U+DCAC", "U+DCAD", "U+DCAE", "U+DCAF", "U+DCB0",
     "U+DCB1", "U+DCB2", "U+DD50", "U+DD51", "U+DD52", "U+DD53", "U+DD54", "U+DD55",
     "U+DD56", "U+DD57", "U+DD58", "U+DD59", "U+DD5A", "U+DD5B", "U+DD5C", "U+DD5D",
     "U+DD5E", "U+DD5F", "U+DD60", "U+DD61", "U+DD62", "U+DD63", "U+DD64", "U+DD65",
     "U+DCA0", "U+DCA1", "U+DCA2", "U+DCA3", "U+DCA4", "U+DCA5", "U+DCA6", "U+DCA7",
     "U+DCA8", "U+DCA9", "U+DCAA", "U+DCAB", "U+DCAC", "U+DCAD", "U+DCAE", "U+DCAF",
     "U+DCB0", "U+DCB1", "U+DCB2", "U+DCB3", "U+DCB4", "U+DCB5", "U+DCB6", "U+DCB7",
     "U+DCB8", "U+DCB9", "U+DCBA", "U+DCBB", "U+DCBC", "U+DCBD", "U+DCBE", "U+DCBF",
     "U+DE40", "U+DE41", "U+DE42", "U+DE43", "U+DE44", "U+DE45", "U+DE46", "U+DE47",
     "U+DE48", "U+DE49", "U+DE4A", "U+DE4B", "U+DE4C", "U+DE4D", "U+DE4E", "U+DE4F",
     "U+DE50", "U+DE51", "U+DE52", "U+DE53", "U+DE54", "U+DE55", "U+DE56", "U+DE57",
     "U+DE58", "U+DE59", "U+DE5A", "U+DE5B", "U+DE5C", "U+DE5D", "U+DE5E", "U+DE5F",
     "U+DEA0", "U+DEA1", "U+DEA2", "U+DEA3", "U+DEA4", "U+DEA5", "U+DEA6", "U+DEA7",
     "U+DEA8", "U+DEA9", "U+DEAA", "U+DEAB", "U+DEAC", "U+DEAD", "U+DEAE", "U+DEAF",
     "U+DEB0", "U+DEB1", "U+DEB2", "U+DEB3", "U+DEB4", "U+DEB5", "U+DEB6", "U+DEB7",
     "U+DEB8", "U+DD00", "U+DD01", "U+DD02", "U+DD03", "U+DD04", "U+DD05", "U+DD06",
     "U+DD07", "U+DD08", "U+DD09", "U+DD0A", "U+DD0B", "U+DD0C", "U+DD0D", "U+DD0E",
     "U+DD0F", "U+DD10", "U+DD11", "U+DD12", "U+DD13", "U+DD14", "U+DD15", "U+DD16",
     "U+DD17", "U+DD18", "U+DD19", "U+DD1A", "U+DD1B", "U+DD1C", "U+DD1D", "U+DD1E",
     "U+DD1F", "U+DD20", "U+DD21">>

CasedCodeUnits == {LowerCaseUnits[k] : k \in DOMAIN LowerCaseUnits}
LengthenedCodeUnits == {LengthenedUnits[k] : k \in DOMAIN LengthenedUnits}
CasedHighSurrogates == {PairHigh[k] : k \in DOMAIN PairHigh}

\* An ASCII character is spelled as itself, any other code unit as U+XXXX
IsAscii(c) == Len(c) = 1

\* String.prototype.toUpperCase on a code unit outside ASCII
UnicodeToUpperCase(c) ==
    IF c \in CasedCodeUnits
    THEN <<UpperCaseUnits[CHOOSE k \in DOMAIN LowerCaseUnits : LowerCaseUnits[k] = c]>>
    ELSE IF c \in LengthenedCodeUnits
    THEN LET k == CHOOSE j \in DOMAIN LengthenedUnits : LengthenedUnits[j] = c
         IN  <<LengthenedFirst[k], LengthenedSecond[k]>>
                 \o (IF LengthenedThird[k] = "" THEN <<>> ELSE <<LengthenedThird[k]>>)
    ELSE <<c>>

\* String.prototype.toUpperCase on one code unit
CharToUpperCase(c) ==
    IF c \in LowerCaseSet THEN <<UpperCaseOf[c]>>
    ELSE IF IsAscii(c) THEN <<c>>
    ELSE UnicodeToUpperCase(c)

\* Two code units are the surrogates of a cased character beyond U+FFFF
IsCasedPair(high, low) ==
    /\ high \in CasedHighSurrogates
    /\ \E k \in DOMAIN PairHigh : PairHigh[k] = high /\ PairLow[k] = low

\* String.prototype.toUpperCase on such a pair
PairToUpperCase(high, low) ==
    LET k == CHOOSE j \in DOMAIN PairHigh : PairHigh[j] = high /\ PairLow[j] = low
    IN  <<UpperPairHigh[k], UpperPairLow[k]>>

\* s.toUpperCase() from index i on
RECURSIVE UpperCaseFrom(_, _)
UpperCaseFrom(s, i) ==
    IF i > Len(s) THEN <<>>
    ELSE IF i < Len(s) /\ ~IsAscii(s[i]) /\ IsCasedPair(s[i], s[i + 1])
    THEN PairToUpperCase(s[i], s[i + 1]) \o UpperCaseFrom(s, i + 2)
    ELSE CharToUpperCase(s[i]) \o UpperCaseFrom(s, i + 1)

\* String.prototype.toUpperCase
ToUpperCase(s) == UpperCaseFrom(s, 1)

\* The first index from i on that holds white space, Len(s) + 1 if none does
RECURSIVE FirstSpace(_, _)
FirstSpace(s, i) ==
    IF i > Len(s) THEN Len(s) + 1
    ELSE IF IsSpace(s[i]) THEN i ELSE FirstSpace(s, i + 1)

\* The first index from i on that holds no white space, Len(s) + 1 if none
RECURSIVE FirstSolid(_, _)
FirstSolid(s, i) ==
    IF i > Len(s) THEN Len(s) + 1
    ELSE IF IsSpace(s[i]) THEN FirstSolid(s, i + 1) ELSE i

\* The last index up to i that holds no white space, 0 if none
RECURSIVE LastSolid(_, _)
LastSolid(s, i) ==
    IF i < 1 THEN 0
    ELSE IF IsSpace(s[i]) THEN LastSolid(s, i - 1) ELSE i

\* String.prototype.trim
Trim(s) == SubSeq(s, FirstSolid(s, 1), LastSolid(s, Len(s)))

\* String.prototype.split(/\s+/): leading or trailing white space yields an
\* empty first or last piece, as in JavaScript.
RECURSIVE SplitSpaces(_)
SplitSpaces(s) ==
    LET i == FirstSpace(s, 1)
    IN  IF i > Len(s) THEN <<s>>
        ELSE <<SubSeq(s, 1, i - 1)>>
                 \o SplitSpaces(SubSeq(s, FirstSolid(s, i), Len(s)))

\* String.prototype.replace(/pat/g, ''), pat a literal
RECURSIVE RemoveAll(_, _)
RemoveAll(s, pat) ==
    IF Len(s) < Len(pat) THEN s
    ELSE IF SubSeq(s, 1, Len(pat)) = pat
         THEN RemoveAll(SubSeq(s, Len(pat) + 1, Len(s)), pat)
         ELSE <<s[1]>> \o RemoveAll(Tail(s), pat)

\* String.prototype.replace(/[^a-zA-Z0-9]/g, '')
KeepAlphanumerics(w) == SelectSeq(w, LAMBDA c : IsLetter(c) \/ IsDigit(c))

\* The first index from i on where /\s+-/ matches, Len(s) + 1 if none
RECURSIVE FirstDashSeparator(_, _)
FirstDashSeparator(s, i) ==
    IF i > Len(s) THEN Len(s) + 1
    ELSE LET j == FirstSolid(s, i)
         IN  IF IsSpace(s[i]) /\ j <= Len(s) /\ s[j] = "-" THEN i
             ELSE FirstDashSeparator(s, i + 1)

\* s.split(/\s+-\s*/)[0]: the text before the first run of white space that
\* is followed by a hyphen
BeforeDashSeparator(s) == SubSeq(s, 1, FirstDashSeparator(s, 1) - 1)

\* The first index from i on that holds no letter, Len(s) + 1 if none
RECURSIVE FirstNonLetter(_, _)
FirstNonLetter(s, i) ==
    IF i > Len(s) THEN Len(s) + 1
    ELSE IF IsLetter(s[i]) THEN FirstNonLetter(s, i + 1) ELSE i

\* /^[A-Za-z]+\d+$/.test(s)
IsLettersThenDigits(s) ==
    LET k == FirstNonLetter(s, 1)
    IN  /\ 2 <= k
        /\ k <= Len(s)
        /\ \A i \in k..Len(s) : IsDigit(s[i])

\* /^[Kk]\d+$/, /^[Ss]\d+$/, /^[Cc]\d+$/ with letter the upper-case letter
IsLeafName(s, letter) ==
    /\ Len(s) >= 2
    /\ s[1] \in {letter, CHOOSE c \in LowerCaseSet : UpperCaseOf[c] = letter}
    /\ \A i \in 2..Len(s) : IsDigit(s[i])

\* Concatenation of a sequence of strings: Array.prototype.join('')
RECURSIVE Join(_)
Join(ss) == IF ss = <<>> THEN <<>> ELSE Head(ss) \o Join(Tail(ss))

Dash == <<"-">>

\* ------------------------------------------------------------ the names

Knowledge == <<"K", "n", "o", "w", "l", "e", "d", "g", "e">>
Skills == <<"S", "k", "i", "l", "l", "s">>
Competence == <<"C", "o", "m", "p", "e", "t", "e", "n", "c", "e">>
TheoreticalUnderstanding == <<"T", "h", "e", "o", "r", "e", "t", "i", "c", "a", "l", " ", "U", "n", "d", "e", "r", "s", "t", "a", "n", "d", "i", "n", "g">>
AppliedKnowledge == <<"A", "p", "p", "l", "i", "e", "d", " ", "K", "n", "o", "w", "l", "e", "d", "g", "e">>
PracticalApplication == <<"P", "r", "a", "c", "t", "i", "c", "a", "l", " ", "A", "p", "p", "l", "i", "c", "a", "t", "i", "o", "n">>
CommunicationSkills == <<"C", "o", "m", "m", "u", "n", "i", "c", "a", "t", "i", "o", "n", " ", "S", "k", "i", "l", "l", "s">>
GenericProblemSolving == <<"G", "e", "n", "e", "r", "i", "c", " ", "P", "r", "o", "b", "l", "e", "m", " ", "S", "o", "l", "v", "i", "n", "g">>
CriticalThinking == <<"C", "r", "i", "t", "i", "c", "a", "l", " ", "T", "h", "i", "n", "k", "i", "n", "g">>
AutonomyAndResponsibility == <<"A", "u", "t", "o", "n", "o", "m", "y", " ", "&", " ", "R", "e", "s", "p", "o", "n", "s", "i", "b", "i", "l", "i", "t", "y">>

\* ------------------------------------------------------------ part_000

\* generateCode with the toUpperCase() of the initials forgotten
generateCodeKeepingCase(name) ==
    IF name = <<>> THEN <<>>
    ELSE LET trimmed == Trim(name)
             words == SplitSpaces(trimmed)
             initials == [i \in 1..Len(words) |->
                            LET cleanW == KeepAlphanumerics(words[i])
                            IN  IF cleanW = <<>> THEN <<>> ELSE <<cleanW[1]>>]
             code == Join(initials)
         IN  IF IsLettersThenDigits(trimmed) THEN trimmed
             ELSE IF code = <<>> THEN trimmed ELSE code

\* generateCode(name), src/unnamed/part_000
generateCode(name) ==
    IF name = <<>> THEN <<>>
    ELSE LET trimmed == Trim(name)
             words == SplitSpaces(trimmed)
             initials == [i \in 1..Len(words) |->
                            LET cleanW == KeepAlphanumerics(words[i])
                            IN  IF cleanW = <<>> THEN <<>>
                                ELSE ToUpperCase(<<cleanW[1]>>)]
             code == Join(initials)
         IN  IF IsLettersThenDigits(trimmed) THEN trimmed
             ELSE IF code = <<>> THEN trimmed ELSE code

\* ------------------------------------------------------------ batch_converter.js

OutcomesOfProgram == <<"U+0645", "U+062E", "U+0631", "U+062C", "U+0627", "U+062A", " ", "U+0628", "U+0631", "U+0646", "U+0627", "U+0645", "U+062C", " ">>
Department == <<"U+0642", "U+0633", "U+0645", " ">>

\* PROGRAM_PREFIX_MAP: the curated program names and their prefixes
PROGRAM_PREFIX_MAP ==
    {<<<<"U+0645", "U+062E", "U+0631", "U+062C", "U+0627", "U+062A", " ", "U+0628", "U+0631", "U+0646", "U+0627", "U+0645", "U+062C", " ", "U+0627", "U+062F", "U+0627", "U+0631", "U+0629", " ", "U+0627", "U+0644", "U+0645", "U+0648", "U+0627", "U+0631", "U+062F", " ", "U+0627", "U+0644", "U+0628", "U+0634", "U+0631", "U+064A", "U+0629">>,
       <<"H", "R">>>>,
     <<<<"U+0645", "U+062E", "U+0631", "U+062C", "U+0627", "U+062A", " ", "U+0628", "U+0631", "U+0646", "U+0627", "U+0645", "U+062C", " ", "U+0630", "U+0643", "U+0627", "U+0621", " ", "U+0627", "U+0644", "U+0627", "U+0639", "U+0645", "U+0627", "U+0644">>,
       <<"B", "I">>>>,
     <<<<"U+0645", "U+062E", "U+0631", "U+062C", "U+0627", "U+062A", " ", "U+0628", "U+0631", "U+0646", "U+0627", "U+0645", "U+062C", " ", "U+0627", "U+0644", "U+062A", "U+0643", "U+0646", "U+0648", "U+0644", "U+0648", "U+062C", "U+064A", "U+0627", " ", "U+0627", "U+0644", "U+0645", "U+0627", "U+0644", "U+064A", "U+0629">>,
       <<"F", "T">>>>,
     <<<<"U+0645", "U+062E", "U+0631", "U+062C", "U+0627", "U+062A", " ", "U+0628", "U+0631", "U+0646", "U+0627", "U+0645", "U+062C", " ", "U+0627", "U+0644", "U+062A", "U+0633", "U+0648", "U+064A", "U+0642", " ", "U+0627", "U+0644", "U+0631", "U+0642", "U+0645", "U+064A">>,
       <<"D", "M">>>>,
     <<<<"U+0645", "U+062E", "U+0631", "U+062C", "U+0627", "U+062A", " ", "U+0628", "U+0631", "U+0646", "U+0627", "U+0645", "U+062C", " ", "U+0627", "U+0644", "U+0645", "U+062D", "U+0627", "U+0633", "U+0628", "U+0629">>,
       <<"A", "C">>>>,
     <<<<"U+0645", "U+062E", "U+0631", "U+062C", "U+0627", "U+062A", " ", "U+0628", "U+0631", "U+0646", "U+0627", "U+0645", "U+062C", " ", "U+0642", "U+0633", "U+0645", " ", "U+0627", "U+0644", "U+0639", "U+0644", "U+0648", "U+0645", " ", "U+0627", "U+0644", "U+062C", "U+0645", "U+0631", "U+0643", "U+064A", "U+0629", " ", "U+0648", "U+0627", "U+0644", "U+0636", "U+0631", "U+064A", "U+0628", "U+064A", "U+0629">>,
       <<"C", "T">>>>,
     <<<<"U+0645", "U+062E", "U+0631", "U+062C", "U+0627", "U+062A", " ", "U+0628", "U+0631", "U+0646", "U+0627", "U+0645", "U+062C", " ", "U+062A", "U+0643", "U+0646", "U+0648", "U+0644", "U+0648", "U+062C", "U+064A", "U+0627", " ", "U+0645", "U+0639", "U+0644", "U+0648", "U+0645", "U+0627", "U+062A", " ", "U+0627", "U+0644", "U+0627", "U+0639", "U+0645", "U+0627", "U+0644">>,
       <<"I", "T">>>>,
     <<<<"U+0645", "U+062E", "U+0631", "U+062C", "U+0627", "U+062A", " ", "U+0628", "U+0631", "U+0646", "U+0627", "U+0645", "U+062C", " ", "U+0627", "U+062F", "U+0627", "U+0631", "U+0629", " ", "U+0627", "U+0644", "U+0627", "U+0639", "U+0645", "U+0627", "U+0644">>,
       <<"B", "A">>>>,
     <<<<"F", "a", "m", "i", "l", "y", " ", "R", "e", "f", "o", "r", "m", " ", "a", "n", "d", " ", "G", "u", "i", "d", "a", "n", "c", "e">>,
       <<"F", "R", "G">>>>}

\* createFrameworkPrefix(name), src/batch_converter.js
createFrameworkPrefix(name) ==
    LET cleanName == BeforeDashSeparator(
                        RemoveAll(RemoveAll(name, OutcomesOfProgram), Department))
        parts == SelectSeq(SplitSpaces(cleanName), LAMBDA p : Len(p) > 0)
        englishMatch == SelectSeq(cleanName, IsUpper)
    IN  IF Len(parts) > 1
        THEN IF Len(englishMatch) >= 2
             THEN englishMatch
             ELSE ToUpperCase(<<parts[1][1], parts[2][1]>>)
        ELSE ToUpperCase(SubSeq(cleanName, 1, IF Len(cleanName) < 3 THEN Len(cleanName) ELSE 3))

\* ------------------------------------------------------------ state

VARIABLES
    variant,           \* which of the two source files is running
    data,              \* argument of the latest call: the parsed records
    programName,       \* argument of the latest call
    fileId,            \* argument of the latest call
    structureMap,      \* part_000: the local structureMap of the latest call
    currentSubAreaId,  \* batch_converter.js: the local currentSubAreaId
    reformattedData,   \* the rows the latest call returned
    outcome,           \* "none", "returned" or "threw"
    helperCall,        \* a call of generateCode or createFrameworkPrefix alone
    files,             \* processBatchFiles: what readdirSync lists, as the disk has it
    batchPc,           \* processBatchFiles: where the run stands
    fileIndex,         \* processBatchFiles: the place of fileName in processableFiles
    batchFileId,       \* processBatchFiles: the loop's fileId, the user's answer
    parsedData,        \* processBatchFiles: what the reader returned
    attempts,          \* the files whose loop body was entered, in order
    written            \* the files an output file was written for, in order

reformatVars == <<variant, data, programName, fileId, structureMap, currentSubAreaId,
                  reformattedData, outcome>>

batchVars == <<files, batchPc, fileIndex, batchFileId, parsedData, attempts, written>>

vars == <<reformatVars, helperCall, batchVars>>

Variants == {"procedural", "static"}

\* ------------------------------------------------------------ JavaScript objects

\* The value of a missing property, and of a template literal that prints it
Undefined == <<"undefined">>

\* Properties every object literal inherits from Object.prototype: `obj[name]`
\* is truthy and `name in obj` is true for them.
constructor == <<"c", "o", "n", "s", "t", "r", "u", "c", "t", "o", "r">>
hasOwnProperty == <<"h", "a", "s", "O", "w", "n", "P", "r", "o", "p", "e", "r", "t", "y">>
isPrototypeOf == <<"i", "s", "P", "r", "o", "t", "o", "t", "y", "p", "e", "O", "f">>
propertyIsEnumerable == <<"p", "r", "o", "p", "e", "r", "t", "y", "I", "s", "E", "n", "u", "m", "e", "r", "a", "b", "l", "e">>
toLocaleString == <<"t", "o", "L", "o", "c", "a", "l", "e", "S", "t", "r", "i", "n", "g">>
toString == <<"t", "o", "S", "t", "r", "i", "n", "g">>
valueOf == <<"v", "a", "l", "u", "e", "O", "f">>
__defineGetter__ == <<"_", "_", "d", "e", "f", "i", "n", "e", "G", "e", "t", "t", "e", "r", "_", "_">>
__defineSetter__ == <<"_", "_", "d", "e", "f", "i", "n", "e", "S", "e", "t", "t", "e", "r", "_", "_">>
__lookupGetter__ == <<"_", "_", "l", "o", "o", "k", "u", "p", "G", "e", "t", "t", "e", "r", "_", "_">>
__lookupSetter__ == <<"_", "_", "l", "o", "o", "k", "u", "p", "S", "e", "t", "t", "e", "r", "_", "_">>
__proto__ == <<"_", "_", "p", "r", "o", "t", "o", "_", "_">>
ObjectPrototypeKeys ==
    {constructor, hasOwnProperty, isPrototypeOf, propertyIsEnumerable,
     toLocaleString, toString, valueOf, __defineGetter__, __defineSetter__,
     __lookupGetter__, __lookupSetter__, __proto__}

\* `${Object.prototype[name]}`: the text of the inherited function (the
\* constructor is the function Object), or of Object.prototype for __proto__
InheritedValueText(name) ==
    IF name = __proto__ THEN <<"[", "o", "b", "j", "e", "c", "t", " ", "O", "b", "j", "e", "c", "t", "]">>
    ELSE <<"f", "u", "n", "c", "t", "i", "o", "n", " ">>
             \o (IF name = constructor THEN <<"O", "b", "j", "e", "c", "t">> ELSE name)
             \o <<"(", ")", " ", "{", " ", "[", "n", "a", "t", "i", "v", "e", " ", "c", "o", "d", "e", "]", " ", "}">>

NoMap == [n \in {} |-> Undefined]

Put(map, key, value) ==
    [n \in DOMAIN map \cup {key} |-> IF n = key THEN value ELSE map[n]]

\* ------------------------------------------------------------ configuration

\* STANDARD_VALUES of part_000 and of batch_converter.js
STANDARD_VALUES(v) ==
    IF v = "procedural"
    THEN [descriptionFormat |-> 1,
          scaleValues |-> "Not yet competent,Competent",
          scaleConfiguration |->
              "[{\"scaleid\":\"2\"},{\"id\":2,\"scaledefault\":1,\"proficient\":1}]",
          taxonomy |-> "competency,competency,competency,competency,competency"]
    ELSE [descriptionFormat |-> 1,
          scaleValues |-> "Not yet competent,Competent",
          scaleConfiguration |->
              "[{\"\"scaleid\"\":\"\"2\"\"},{\"\"id\"\":2,\"\"scaledefault\"\":1,\"\"proficient\"\":1}]",
          taxonomy |-> "competency"]

\* ROW_STANDARD_VALUES of part_000
ROW_STANDARD_VALUES ==
    [descriptionFormat |-> 1,
     scaleValues |-> "",
     scaleConfiguration |-> "",
     taxonomy |-> "competency,competency,competency,competency,competency"]

\* MAJOR_AREA_MAP of batch_converter.js
MAJOR_AREA_MAP ==
    [n \in {Knowledge, TheoreticalUnderstanding, PracticalApplication, Skills,
            GenericProblemSolving, CommunicationSkills, Competence,
            AutonomyAndResponsibility} |->
        IF n = Knowledge THEN <<"K">>
        ELSE IF n = TheoreticalUnderstanding THEN <<"K", "-", "T", "U">>
        ELSE IF n = PracticalApplication THEN <<"K", "-", "P", "A">>
        ELSE IF n = Skills THEN <<"S">>
        ELSE IF n = GenericProblemSolving THEN <<"S", "-", "G", "P", "S">>
        ELSE IF n = CommunicationSkills THEN <<"S", "-", "C", "S">>
        ELSE IF n = Competence THEN <<"C">>
        ELSE <<"C", "-", "A", "R", "C">>]

\* subCategoryParents of part_000
subCategoryParents ==
    [n \in {TheoreticalUnderstanding, AppliedKnowledge, PracticalApplication,
            CommunicationSkills, GenericProblemSolving, CriticalThinking,
            AutonomyAndResponsibility} |->
        IF n \in {TheoreticalUnderstanding, AppliedKnowledge, PracticalApplication}
        THEN Knowledge
        ELSE IF n \in {CommunicationSkills, GenericProblemSolving, CriticalThinking}
        THEN Skills
        ELSE Competence]

\* ------------------------------------------------------------ rows

\* "Exported ID (optional)": "" of the framework row, in part_000 alone
ExportedId(v) == IF v = "procedural" THEN [exportedId |-> ""] ELSE <<>>

\* FrameworkRow with the flag forgotten
FrameworkRowUnflagged(v, mainFramework, rootRowId) ==
    LET std == STANDARD_VALUES(v)
    IN  [parentId |-> <<>>,
         idNumber |-> rootRowId,
         shortName |-> mainFramework.name,
         description |-> mainFramework.description,
         isFramework |-> "",
         descriptionFormat |-> std.descriptionFormat,
         scaleValues |-> std.scaleValues,
         scaleConfiguration |-> std.scaleConfiguration,
         taxonomy |-> std.taxonomy]
            @@ ExportedId(v)

\* The row an object literal with "Is framework": 1 builds.  The number 1 of
\* "Is framework" is written "1", the empty string "".
FrameworkRow(v, mainFramework, rootRowId) ==
    LET std == STANDARD_VALUES(v)
    IN  [parentId |-> <<>>,
         idNumber |-> rootRowId,
         shortName |-> mainFramework.name,
         description |-> mainFramework.description,
         isFramework |-> "1",
         descriptionFormat |-> std.descriptionFormat,
         scaleValues |-> std.scaleValues,
         scaleConfiguration |-> std.scaleConfiguration,
         taxonomy |-> std.taxonomy]
            @@ ExportedId(v)

\* The row pushed for a competency: part_000 spreads ROW_STANDARD_VALUES,
\* batch_converter.js spreads STANDARD_VALUES.
RowValues(v) == IF v = "procedural" THEN ROW_STANDARD_VALUES ELSE STANDARD_VALUES(v)

CompetencyRow(v, parentId, idNumber, shortName, description) ==
    LET std == RowValues(v)
    IN  [parentId |-> parentId,
         idNumber |-> idNumber,
         shortName |-> shortName,
         description |-> description,
         isFramework |-> "",
         descriptionFormat |-> std.descriptionFormat,
         scaleValues |-> std.scaleValues,
         scaleConfiguration |-> std.scaleConfiguration,
         taxonomy |-> std.taxonomy]

\* ------------------------------------------------------------ part_000: one pass of the loop

\* const prefix = generateCode(mainFramework.name || programName)
ProceduralPrefix(mainFramework, pName) ==
    generateCode(IF mainFramework.name # <<>> THEN mainFramework.name ELSE pName)

\* const structureMap = { Knowledge: ..., Skills: ..., Competence: ... }
NewStructureMap(prefix) ==
    [n \in {Knowledge, Skills, Competence} |->
        [id |-> prefix \o Dash \o (IF n = Knowledge THEN <<"K">>
                                   ELSE IF n = Skills THEN <<"S">> ELSE <<"C">>),
         parent |-> <<>>]]

\* The default sub-area of a name that is no area: by its first letter
DefaultParentName(name) ==
    IF name[1] \in {"K", "k"} THEN TheoreticalUnderstanding
    ELSE IF name[1] \in {"S", "s"} THEN GenericProblemSolving
    ELSE IF name[1] \in {"C", "c"} THEN AutonomyAndResponsibility
    ELSE <<>>

\* if (!name) continue
SkipsRow(name) == name = <<>>

\* The body of the for loop of part_000 for one row: st holds the locals
\* structureMap and reformattedData.
ProceduralRow(st, row, prefix) ==
    LET name == row.name
        code == generateCode(name)
        map == st.structureMap
        res ==
            IF name \in DOMAIN map
            THEN [idNumber |-> map[name].id, parentId |-> map[name].parent, map |-> map]
            ELSE IF name \in ObjectPrototypeKeys
            THEN [idNumber |-> Undefined, parentId |-> Undefined, map |-> map]
            ELSE IF name \in DOMAIN subCategoryParents
            THEN LET parentName == subCategoryParents[name]
                 IN  IF parentName \in DOMAIN map
                     THEN LET parentId == map[parentName].id
                              idNumber == parentId \o Dash \o code
                          IN  [idNumber |-> idNumber, parentId |-> parentId,
                               map |-> Put(map, name, [id |-> idNumber, parent |-> parentId])]
                     ELSE [idNumber |-> prefix \o Dash \o code, parentId |-> <<>>, map |-> map]
            ELSE LET parentName == DefaultParentName(name)
                 IN  IF parentName # <<>> /\ parentName \in DOMAIN map
                     THEN [idNumber |-> map[parentName].id \o Dash \o code,
                           parentId |-> map[parentName].id, map |-> map]
                     ELSE [idNumber |-> prefix \o Dash \o code, parentId |-> <<>>, map |-> map]
    IN  IF SkipsRow(name) THEN st
        ELSE [structureMap |-> res.map,
              currentSubAreaId |-> st.currentSubAreaId,
              reformattedData |->
                  Append(st.reformattedData,
                         CompetencyRow("procedural", res.parentId, res.idNumber,
                                       name, row.description))]

\* ------------------------------------------------------------ batch_converter.js: one pass of the loop

\* PROGRAM_PREFIX_MAP[programName] || createFrameworkPrefix(programName)
\* (the lookup also finds what the object literal inherits)
EnglishPrefix(pName) ==
    IF \E e \in PROGRAM_PREFIX_MAP : e[1] = pName
    THEN (CHOOSE e \in PROGRAM_PREFIX_MAP : e[1] = pName)[2]
    ELSE IF pName \in ObjectPrototypeKeys THEN InheritedValueText(pName)
    ELSE createFrameworkPrefix(pName)

\* let currentSubAreaId = ''
NewSubAreaId == <<>>

\* The parent of a key of MAJOR_AREA_MAP (the if chain on the name)
StaticAreaParent(name, englishPrefix) ==
    IF name \in {Knowledge, Skills, Competence} THEN <<>>
    ELSE IF name \in {TheoreticalUnderstanding, PracticalApplication}
    THEN englishPrefix \o Dash \o <<"K">>
    ELSE IF name \in {GenericProblemSolving, CommunicationSkills}
    THEN englishPrefix \o Dash \o <<"S">>
    ELSE IF name = AutonomyAndResponsibility
    THEN englishPrefix \o Dash \o <<"C">>
    ELSE <<>>

\* The id and parent of a K/S/C-digits row
StaticLeaf(name, area, englishPrefix) ==
    [idNumber |-> englishPrefix \o Dash \o MAJOR_AREA_MAP[area] \o Dash \o ToUpperCase(name),
     parentId |-> englishPrefix \o Dash \o MAJOR_AREA_MAP[area]]

\* The body of the for loop of batch_converter.js for one row: st holds the
\* locals currentSubAreaId and reformattedData.  The loop starts at index 1, so
\* its `if (i === 0) continue` never skips a row.
StaticRow(st, row, englishPrefix) ==
    LET name == row.name
        res ==
            IF name \in DOMAIN MAJOR_AREA_MAP \/ name \in ObjectPrototypeKeys
            THEN LET areaCode == IF name \in DOMAIN MAJOR_AREA_MAP
                                 THEN MAJOR_AREA_MAP[name]
                                 ELSE InheritedValueText(name)
                     idNumber == englishPrefix \o Dash \o areaCode
                 IN  [idNumber |-> idNumber,
                      parentId |-> StaticAreaParent(name, englishPrefix),
                      current |-> idNumber]
            ELSE IF IsLeafName(name, "K")
            THEN StaticLeaf(name, TheoreticalUnderstanding, englishPrefix)
                     @@ [current |-> st.currentSubAreaId]
            ELSE IF IsLeafName(name, "S")
            THEN StaticLeaf(name, GenericProblemSolving, englishPrefix)
                     @@ [current |-> st.currentSubAreaId]
            ELSE IF IsLeafName(name, "C")
            THEN StaticLeaf(name, AutonomyAndResponsibility, englishPrefix)
                     @@ [current |-> st.currentSubAreaId]
            ELSE [idNumber |-> englishPrefix \o Dash \o name,
                  parentId |-> st.currentSubAreaId,
                  current |-> st.currentSubAreaId]
    IN  [structureMap |-> st.structureMap,
         currentSubAreaId |-> res.current,
         reformattedData |->
             Append(st.reformattedData,
                    CompetencyRow("static", res.parentId, res.idNumber,
                                  name, row.description))]

\* ------------------------------------------------------------ cleanAndReformatCompetencies

\* for (let i = 1; i < data.length; i++) { ... }
RECURSIVE ProcessRows(_, _, _, _, _)
ProcessRows(v, st, d, i, prefix) ==
    IF i > Len(d) THEN st
    ELSE ProcessRows(v,
                     IF v = "procedural" THEN ProceduralRow(st, d[i], prefix)
                     ELSE StaticRow(st, d[i], prefix),
                     d, i + 1, prefix)

\* MainFrameworkMissing off by one: a lone framework record throws as well
MainFrameworkMissingOffByOne(d) == Len(d) <= 1

\* data[0] is undefined and reading mainFramework.name throws a TypeError
MainFrameworkMissing(d) == Len(d) = 0

\* The prefix of the identifiers of a call: prefix in part_000, englishPrefix
\* in batch_converter.js
ProgramPrefix(v, d, pName) ==
    IF v = "procedural" THEN ProceduralPrefix(d[1], pName) ELSE EnglishPrefix(pName)

\* The locals of a call that got past the framework row, when it returns
Returned(v, d, pName, fId) ==
    LET prefix == ProgramPrefix(v, d, pName)
    IN  ProcessRows(v,
                    [structureMap |-> IF v = "procedural" THEN NewStructureMap(prefix)
                                      ELSE NoMap,
                     currentSubAreaId |-> IF v = "static" THEN NewSubAreaId
                                          ELSE <<>>,
                     reformattedData |-> <<FrameworkRow(v, d[1], fId)>>],
                    d, 2, prefix)

\* One call cleanAndReformatCompetencies(d, pName, fId).  The locals are those
\* of this call: when it throws, part_000 has not built its structureMap yet
\* and batch_converter.js has only declared currentSubAreaId.
cleanAndReformatCompetencies(d, pName, fId) ==
    /\ data' = d
    /\ programName' = pName
    /\ fileId' = fId
    /\ IF MainFrameworkMissing(d)
       THEN /\ outcome' = "threw"
            /\ reformattedData' = <<>>
            /\ structureMap' = NoMap
            /\ currentSubAreaId' = IF variant = "static" THEN NewSubAreaId ELSE <<>>
       ELSE LET st == Returned(variant, d, pName, fId)
            IN  /\ outcome' = "returned"
                /\ reformattedData' = st.reformattedData
                /\ structureMap' = st.structureMap
                /\ currentSubAreaId' = st.currentSubAreaId
    /\ UNCHANGED variant

\* ------------------------------------------------------------ inputs

\* At most MaxRows records follow the framework record
MaxRows == 3

K1 == <<"K", "1">>
k1 == <<"k", "1">>
S2 == <<"S", "2">>
C3 == <<"C", "3">>
UnrelatedTopic == <<"U", "n", "r", "e", "l", "a", "t", "e", "d", " ", "T", "o", "p", "i", "c">>
KeySkills == <<"K", "e", "y", " ", "S", "k", "i", "l", "l", "s">>
PhysicalEducation == <<"P", "h", "y", "s", "i", "c", "a", "l", " ", "E", "d", "u", "c", "a", "t", "i", "o", "n">>
Accounting == <<"A", "c", "c", "o", "u", "n", "t", "i", "n", "g">>
FamilyReformAndGuidance == <<"F", "a", "m", "i", "l", "y", " ", "R", "e", "f", "o", "r", "m", " ", "a", "n", "d", " ", "G", "u", "i", "d", "a", "n", "c", "e">>

\* The ten canonical area labels of the design
AreaLabels ==
    {Knowledge, Skills, Competence, TheoreticalUnderstanding, AppliedKnowledge,
     PracticalApplication, CommunicationSkills, GenericProblemSolving,
     CriticalThinking, AutonomyAndResponsibility}

TopLevelAreas == {Knowledge, Skills, Competence}

\* The labels among the input names
InputAreaLabels ==
    {Knowledge, TheoreticalUnderstanding, AppliedKnowledge, AutonomyAndResponsibility}

OutcomeNames == {K1, k1, S2, C3, UnrelatedTopic, KeySkills, constructor}

\* What the readers hand over: name and description trimmed, not both empty.
\* Area rows come without a description, outcome rows with one.
InputRecords ==
    {[name |-> n, description |-> ""] : n \in InputAreaLabels}
        \cup {[name |-> n, description |-> "Outcome 1"] : n \in OutcomeNames \cup {<<>>}}

\* The framework record, the program name (the file's base name) and the
\* root identifier the user typed ("2299" when the user typed nothing)
ProgramContexts ==
    {[mainFramework |-> [name |-> PhysicalEducation, description |-> "Program desc"],
      programName |-> PhysicalEducation,
      fileId |-> <<"1", "0", "0">>],
     [mainFramework |-> [name |-> <<>>, description |-> "Program desc"],
      programName |-> Accounting,
      fileId |-> <<"2", "2", "9", "9">>],
     [mainFramework |-> [name |-> Knowledge, description |-> ""],
      programName |-> FamilyReformAndGuidance,
      fileId |-> <<"2", "2", "9", "9">>],
     [mainFramework |-> [name |-> <<>>, description |-> "Program desc"],
      programName |-> constructor,
      fileId |-> <<"1", "0", "0">>]}

RECURSIVE SeqsUpTo(_, _)
SeqsUpTo(S, n) ==
    IF n = 0 THEN {<<>>}
    ELSE LET shorter == SeqsUpTo(S, n - 1)
         IN  shorter \cup {Append(s, x) : s \in {t \in shorter : Len(t) = n - 1}, x \in S}

RowInputs == SeqsUpTo(InputRecords, MaxRows)

\* ------------------------------------------------------------ specification

\* No call of cleanAndReformatCompetencies has been made
NoReformatCall ==
    /\ variant \in Variants
    /\ data = <<>>
    /\ programName = <<>>
    /\ fileId = <<>>
    /\ structureMap = NoMap
    /\ currentSubAreaId = <<>>
    /\ reformattedData = <<>>
    /\ outcome = "none"

\* No helper is called on its own
NoHelperCall == helperCall = [fn |-> "none", argument |-> <<>>]

\* processBatchFiles does not run
NoBatchRun ==
    /\ files = <<>>
    /\ batchPc = "idle"
    /\ fileIndex = 0
    /\ batchFileId = <<>>
    /\ parsedData = <<>>
    /\ attempts = <<>>
    /\ written = <<>>

Init == NoReformatCall /\ NoHelperCall /\ NoBatchRun

\* A user of the exported function calls cleanAndReformatCompetencies once,
\* with any array; the calls of processBatchFiles, which never passes an empty
\* one, are ReformatFile.
Reformat ==
    /\ outcome = "none"
    /\ \E c \in ProgramContexts :
          \/ cleanAndReformatCompetencies(<<>>, c.programName, c.fileId)
          \/ \E rows \in RowInputs :
                cleanAndReformatCompetencies(<<c.mainFramework>> \o rows,
                                             c.programName, c.fileId)
    /\ UNCHANGED <<helperCall, batchVars>>

Next == Reformat

Spec == Init /\ [][Next]_vars

\* ------------------------------------------------------------ the helpers alone

\* An argument of a helper has at most MaxArgumentLen characters, or is one of
\* the two stripped phrases followed by at most MaxTailLen characters
MaxArgumentLen == 4
MaxTailLen == 2

\* A lower-case and an upper-case letter, a digit, a punctuation mark, the
\* space, the no-break space, the hyphen, an Arabic letter and the sharp s
\* (whose upper-case text is SS)
HelperAlphabet == {"a", "B", "1", "&", " ", "U+00A0", "-", "U+0645", "U+00DF"}

HelperArguments ==
    SeqsUpTo(HelperAlphabet, MaxArgumentLen)
        \cup {phrase \o tail : phrase \in {OutcomesOfProgram, Department},
                                tail \in SeqsUpTo(HelperAlphabet, MaxTailLen)}

\* The argument is there and no helper has been called yet
InitHelpers ==
    /\ NoReformatCall
    /\ NoBatchRun
    /\ \E a \in HelperArguments : helperCall = [fn |-> "none", argument |-> a]

\* generateCode(argument) in part_000
CallGenerateCode ==
    /\ variant = "procedural"
    /\ helperCall.fn = "none"
    /\ helperCall' = [fn |-> "generateCode", argument |-> helperCall.argument,
                      result |-> generateCode(helperCall.argument)]
    /\ UNCHANGED <<reformatVars, batchVars>>

\* createFrameworkPrefix(argument) in batch_converter.js
CallCreateFrameworkPrefix ==
    /\ variant = "static"
    /\ helperCall.fn = "none"
    /\ helperCall' = [fn |-> "createFrameworkPrefix", argument |-> helperCall.argument,
                      result |-> createFrameworkPrefix(helperCall.argument)]
    /\ UNCHANGED <<reformatVars, batchVars>>

NextHelpers == CallGenerateCode \/ CallCreateFrameworkPrefix

SpecHelpers == InitHelpers /\ [][NextHelpers]_vars

\* ------------------------------------------------------------ processBatchFiles

\* The last index up to i that holds a dot, 0 if none
RECURSIVE LastDot(_, _)
LastDot(s, i) ==
    IF i < 1 THEN 0
    ELSE IF s[i] = "." THEN i ELSE LastDot(s, i - 1)

\* path.extname of a name without directories: from the last dot on, and ''
\* when there is no dot or the name only starts with one
extname(file) ==
    LET k == LastDot(file, Len(file))
    IN  IF k <= 1 \/ file = <<".", ".">> THEN <<>> ELSE SubSeq(file, k, Len(file))

ProcessableExtensions == {<<".", "c", "s", "v">>, <<".", "x", "l", "s">>, <<".", "x", "l", "s", "x">>}

\* ext.toLowerCase() === lower, for lower one of the three extensions: only
\* the ASCII capitals lower-case to their letters
LowerCasesTo(ext, lower) ==
    /\ Len(ext) = Len(lower)
    /\ \A i \in 1..Len(ext) :
          \/ ext[i] = lower[i]
          \/ lower[i] \in LowerCaseSet /\ ext[i] = UpperCaseOf[lower[i]]

\* The test of files.filter(...)
IsProcessable(file) ==
    \E lower \in ProcessableExtensions : LowerCasesTo(extname(file), lower)

\* const fileExt = path.extname(fileName).toLowerCase(), of a processable file
fileExtOf(fileName) ==
    CHOOSE lower \in ProcessableExtensions : LowerCasesTo(extname(fileName), lower)

\* path.basename(fileName, ext): the extension is cut only when the name ends
\* with it as written; a name that is the extension and nothing else gives ""
basename(fileName, ext) ==
    IF /\ Len(ext) <= Len(fileName)
       /\ SubSeq(fileName, Len(fileName) - Len(ext) + 1, Len(fileName)) = ext
    THEN SubSeq(fileName, 1, Len(fileName) - Len(ext))
    ELSE fileName

\* const programName = path.basename(fileName, fileExt)
programNameOf(fileName) == basename(fileName, fileExtOf(fileName))

\* const outputFileName = `Reformatted - ${path.basename(fileName, fileExt)}.csv`
outputFileNameOf(fileName) ==
    <<"R", "e", "f", "o", "r", "m", "a", "t", "t", "e", "d", " ", "-", " ">> \o basename(fileName, fileExtOf(fileName)) \o <<".", "c", "s", "v">>

\* const fileId = answer.trim() || "2299"
FileIdOf(answer) == IF Trim(answer) = <<>> THEN <<"2", "2", "9", "9">> ELSE Trim(answer)

\* At most MaxFiles entries are in the input directory
MaxFiles == 3

\* An entry of the input directory as the disk has it: its name, the records
\* its reader returns, and
\*   "records"     the file can be read and the output can be written
\*   "noRecords"   the file can be read and its reader returns []
\*   "unreadable"  reading the file fails
\*   "unwritable"  the file can be read and writeFileSync throws
DirectoryEntries ==
    {[fileName |-> PhysicalEducation \o <<".", "c", "s", "v">>, disk |-> "records",
      records |-> <<[name |-> PhysicalEducation, description |-> "Program desc"],
                    [name |-> Knowledge, description |-> ""],
                    [name |-> TheoreticalUnderstanding, description |-> ""],
                    [name |-> K1, description |-> "Outcome 1"]>>],
     [fileName |-> <<"e", "m", "p", "t", "y", ".", "c", "s", "v">>, disk |-> "noRecords", records |-> <<>>],
     [fileName |-> <<"l", "o", "c", "k", "e", "d", ".", "c", "s", "v">>, disk |-> "unreadable", records |-> <<>>],
     [fileName |-> Accounting \o <<".", "C", "S", "V">>, disk |-> "unwritable",
      records |-> <<[name |-> <<>>, description |-> "Program desc"],
                    [name |-> Knowledge, description |-> ""],
                    [name |-> UnrelatedTopic, description |-> "Outcome 1"]>>],
     [fileName |-> FamilyReformAndGuidance \o <<".", "x", "l", "s", "x">>, disk |-> "records",
      records |-> <<[name |-> Knowledge, description |-> ""],
                    [name |-> S2, description |-> "Outcome 1"]>>],
     [fileName |-> <<"b", "r", "o", "k", "e", "n", ".", "x", "l", "s">>, disk |-> "unreadable", records |-> <<>>],
     [fileName |-> <<"n", "o", "t", "e", "s", ".", "t", "x", "t">>, disk |-> "records", records |-> <<>>]}

\* A directory holds no name twice
Directories ==
    {d \in SeqsUpTo(DirectoryEntries, MaxFiles) :
        \A i, j \in 1..Len(d) : i # j => d[i] # d[j]}

\* const processableFiles = files.filter(...)
processableFiles == SelectSeq(files, LAMBDA f : IsProcessable(f.fileName))

\* processBatchFiles is about to run on a directory
InitBatch ==
    /\ NoReformatCall
    /\ NoHelperCall
    /\ files \in Directories
    /\ batchPc = "start"
    /\ fileIndex = 0
    /\ batchFileId = <<>>
    /\ parsedData = <<>>
    /\ attempts = <<>>
    /\ written = <<>>

\* Where the loop goes after the file at place i of n
AfterFile(i, n) == IF i = n THEN "completed" ELSE "prompt"

\* catch (error) { console.error(...) } inside the loop: the loop goes on
AfterCaughtError(i, n) == AfterFile(i, n)

\* The loop moves to pc: the next file, or out of the loop.  The locals of the
\* loop body are gone.
MoveTo(pc) ==
    /\ batchPc' = pc
    /\ fileIndex' = IF pc = "prompt" THEN fileIndex + 1 ELSE fileIndex
    /\ batchFileId' = <<>>
    /\ parsedData' = <<>>

\* ensureDirectoryExists(dirPath) returns: the directory is there, or
\* fs.mkdirSync has made it
EnsureDirectoryExists(pc, next) ==
    /\ batchPc = pc
    /\ batchPc' = next
    /\ UNCHANGED <<files, fileIndex, batchFileId, parsedData, attempts, written,
                   reformatVars, helperCall>>

\* ensureDirectoryExists(beforeDir)
EnsureBeforeDir == EnsureDirectoryExists("start", "ensureAfter")

\* ensureDirectoryExists(afterDir)
EnsureAfterDir == EnsureDirectoryExists("ensureAfter", "list")

\* fs.mkdirSync throws in one of the two calls.  They stand before the try:
\* no catch takes the error and the promise of processBatchFiles is rejected.
EnsureDirectoryThrows ==
    /\ batchPc \in {"start", "ensureAfter"}
    /\ batchPc' = "rejected"
    /\ UNCHANGED <<files, fileIndex, batchFileId, parsedData, attempts, written,
                   reformatVars, helperCall>>

\* fs.readdirSync and the extension filter succeed
ListFiles ==
    /\ batchPc = "list"
    /\ IF processableFiles = <<>>
       THEN batchPc' = "noFiles" /\ fileIndex' = fileIndex
       ELSE batchPc' = "prompt" /\ fileIndex' = 1
    /\ UNCHANGED <<files, batchFileId, parsedData, attempts, written, reformatVars, helperCall>>

\* fs.readdirSync throws: the outer catch logs it and the function returns
ListFilesFails ==
    /\ batchPc = "list"
    /\ batchPc' = "directoryError"
    /\ UNCHANGED <<files, fileIndex, batchFileId, parsedData, attempts, written,
                   reformatVars, helperCall>>

\* The loop body starts for fileName: askForFileId puts the question
PromptForFileId ==
    /\ batchPc = "prompt"
    /\ attempts' = Append(attempts, fileIndex)
    /\ batchPc' = "awaitAnswer"
    /\ UNCHANGED <<files, fileIndex, batchFileId, parsedData, written, reformatVars, helperCall>>

\* What the user types at the question
Answers == {<<>>, <<" ", "7", "7">>}

\* The input ends before an answer comes: at its end when the question is put,
\* or read ahead and dropped by the interface of the file before, which
\* rl.close() has closed.  readline closes the interface without calling the
\* callback of rl.question, the promise of askForFileId never resolves, nothing
\* is left to run and the process exits (code 0) inside the loop.
InputEnds ==
    /\ batchPc = "awaitAnswer"
    /\ batchPc' = "exited"
    /\ UNCHANGED <<files, fileIndex, batchFileId, parsedData, attempts, written,
                   reformatVars, helperCall>>

\* The user answers and the promise resolves with the file id
AnswerFileId ==
    /\ batchPc = "awaitAnswer"
    /\ \E answer \in Answers : batchFileId' = FileIdOf(answer)
    /\ batchPc' = "parse"
    /\ UNCHANGED <<files, fileIndex, parsedData, attempts, written, reformatVars, helperCall>>

\* readFileSync and parseCsvWithLibrary, or parseExcelFile.  parseExcelFile
\* reads inside its own try and returns [] on any error; readFileSync of a
\* .csv file is outside parseCsvWithLibrary and throws into the loop's catch.
ParseFile ==
    /\ batchPc = "parse"
    /\ LET file == processableFiles[fileIndex]
       IN  IF fileExtOf(file.fileName) = <<".", "c", "s", "v">> /\ file.disk = "unreadable"
           THEN batchPc' = "caught" /\ parsedData' = parsedData
           ELSE /\ batchPc' = "parsed"
                /\ parsedData' = IF file.disk = "unreadable" THEN <<>> ELSE file.records
    /\ UNCHANGED <<files, fileIndex, batchFileId, attempts, written, reformatVars, helperCall>>

\* if (!parsedData || parsedData.length === 0) { console.warn(...); continue; }
SkipFile ==
    /\ batchPc = "parsed"
    /\ parsedData = <<>>
    /\ MoveTo(AfterFile(fileIndex, Len(processableFiles)))
    /\ UNCHANGED <<files, attempts, written, reformatVars, helperCall>>

\* const reformattedData = cleanAndReformatCompetencies(parsedData, programName,
\* fileId) and toCsvString(reformattedData); an error of the call would go to
\* the loop's catch (the call throws on an empty array only, and parsedData is
\* not empty here)
ReformatFile ==
    /\ batchPc = "parsed"
    /\ parsedData # <<>>
    /\ cleanAndReformatCompetencies(parsedData,
                                    programNameOf(processableFiles[fileIndex].fileName),
                                    batchFileId)
    /\ batchPc' = IF MainFrameworkMissing(parsedData) THEN "caught" ELSE "write"
    /\ UNCHANGED <<files, fileIndex, batchFileId, parsedData, attempts, written, helperCall>>

\* fs.writeFileSync(outputPath, ...) of the rows of the call
WriteFile ==
    /\ batchPc = "write"
    /\ IF processableFiles[fileIndex].disk = "unwritable"
       THEN /\ batchPc' = "caught"
            /\ UNCHANGED <<fileIndex, batchFileId, parsedData, written>>
       ELSE /\ written' = Append(written,
                                 [file |-> fileIndex,
                                  outputFileName |->
                                      outputFileNameOf(processableFiles[fileIndex].fileName),
                                  rows |-> Len(reformattedData)])
            /\ MoveTo(AfterFile(fileIndex, Len(processableFiles)))
    /\ UNCHANGED <<files, attempts, reformatVars, helperCall>>

\* The loop's catch
CatchFileError ==
    /\ batchPc = "caught"
    /\ MoveTo(AfterCaughtError(fileIndex, Len(processableFiles)))
    /\ UNCHANGED <<files, attempts, written, reformatVars, helperCall>>

NextBatch ==
    \/ EnsureBeforeDir
    \/ EnsureAfterDir
    \/ EnsureDirectoryThrows
    \/ ListFiles
    \/ ListFilesFails
    \/ PromptForFileId
    \/ InputEnds
    \/ AnswerFileId
    \/ ParseFile
    \/ SkipFile
    \/ ReformatFile
    \/ WriteFile
    \/ CatchFileError

SpecBatch == InitBatch /\ [][NextBatch]_vars

\* ------------------------------------------------------------ what the claims speak of

\* The rows after the framework row
CompetencyRows == SubSeq(reformattedData, 2, Len(reformattedData))

\* The (Short name, Description) pairs of a sequence of rows or of records
RECURSIVE NameDescriptionPairs(_)
NameDescriptionPairs(rows) ==
    IF rows = <<>> THEN <<>>
    ELSE <<<<(IF "shortName" \in DOMAIN Head(rows) THEN Head(rows).shortName
              ELSE Head(rows).name),
             Head(rows).description>>>> \o NameDescriptionPairs(Tail(rows))

\* records[1..] with the records of empty name removed
NamedRecords == SelectSeq(Tail(data), LAMBDA r : r.name # <<>>)

\* The prefix of the latest call
CallPrefix == ProgramPrefix(variant, data, programName)

\* The code the design fixes for an area label: one letter for a top-level
\* area, the letter of its top-level area and its initials for a sub-area
\* (the sources disagree on Autonomy & Responsibility: AR or ARC).
TopLevelLetter(label) ==
    IF label \in {Knowledge, TheoreticalUnderstanding, AppliedKnowledge,
                  PracticalApplication} THEN <<"K">>
    ELSE IF label \in {Skills, CommunicationSkills, GenericProblemSolving,
                       CriticalThinking} THEN <<"S">>
    ELSE <<"C">>

SubAreaInitials(label) ==
    IF label = TheoreticalUnderstanding THEN {<<"T", "U">>}
    ELSE IF label = AppliedKnowledge THEN {<<"A", "K">>}
    ELSE IF label = PracticalApplication THEN {<<"P", "A">>}
    ELSE IF label = CommunicationSkills THEN {<<"C", "S">>}
    ELSE IF label = GenericProblemSolving THEN {<<"G", "P", "S">>}
    ELSE IF label = CriticalThinking THEN {<<"C", "T">>}
    ELSE {<<"A", "R">>, <<"A", "R", "C">>}

\* The identifier the running variant gives a row named label
AreaRowId(label) ==
    Returned(variant, <<data[1], [name |-> label, description |-> ""]>>,
             programName, fileId).reformattedData[2].idNumber

\* /^[Kk]\d+$/, /^[Ss]\d+$/ or /^[Cc]\d+$/
IsAnyLeafName(name) ==
    IsLeafName(name, "K") \/ IsLeafName(name, "S") \/ IsLeafName(name, "C")

\* ------------------------------------------------------------ C1

\* C1: in the returned rows, the Parent ID number of every row after the
\* framework row is empty or is the ID number of a row at an earlier position.
C1_ParentPrecedes ==
    outcome = "returned" =>
        \A i \in 2..Len(reformattedData) :
            \/ reformattedData[i].parentId = <<>>
            \/ \E j \in 1..(i - 1) :
                  reformattedData[j].idNumber = reformattedData[i].parentId

\* ------------------------------------------------------------ C2

\* C2: a call on a non-empty record sequence returns 1 + (the number of
\* records after the first whose name is not empty) rows.
C2_RowCount ==
    outcome = "returned" => Len(reformattedData) = 1 + Len(NamedRecords)

\* ------------------------------------------------------------ C3

\* C3: the first returned row is the framework row built from records[0]
\* (Is framework = 1, the root identifier, no parent), every other row has an
\* empty Is framework, and records[0] yields no competency row: there are at
\* most as many rows as records.
C3_FrameworkRowFirst ==
    outcome = "returned" =>
        /\ Len(reformattedData) >= 1
        /\ Len(reformattedData) <= Len(data)
        /\ reformattedData[1].isFramework = "1"
        /\ reformattedData[1].shortName = data[1].name
        /\ reformattedData[1].description = data[1].description
        /\ reformattedData[1].idNumber = fileId
        /\ reformattedData[1].parentId = <<>>
        /\ \A i \in 2..Len(reformattedData) : reformattedData[i].isFramework = ""

\* A call whose framework record is named like an area and that returned
\* competency rows as well
C3_Witness ==
    /\ outcome = "returned"
    /\ data[1].name = Knowledge
    /\ Len(reformattedData) >= 3
    /\ reformattedData[2].shortName = Knowledge

\* ------------------------------------------------------------ C4

\* C4: the (Short name, Description) pairs of the rows after the framework row
\* are the (name, description) pairs of records[1..] without the records of
\* empty name, in input order.
C4_VerbatimInOrder ==
    outcome = "returned" =>
        NameDescriptionPairs(CompetencyRows) = NameDescriptionPairs(NamedRecords)

\* ------------------------------------------------------------ C5

\* C5: a row named by one of the ten canonical area labels has the ID number
\* prefix-code with the label's fixed code, and its Parent ID number is empty
\* for a top-level area and the top-level area's identifier for a sub-area,
\* wherever the row stands.
C5_CanonicalAreaIds ==
    outcome = "returned" =>
        \A i \in 2..Len(reformattedData) :
            LET row == reformattedData[i]
                top == CallPrefix \o Dash \o TopLevelLetter(row.shortName)
            IN  row.shortName \in AreaLabels =>
                    IF row.shortName \in TopLevelAreas
                    THEN row.idNumber = top /\ row.parentId = <<>>
                    ELSE /\ row.parentId = top
                         /\ \E initials \in SubAreaInitials(row.shortName) :
                               row.idNumber = top \o Dash \o initials

\* ------------------------------------------------------------ C6

\* C6: a row named K, S or C (either case) and digits has as Parent ID number
\* the identifier of its default sub-area (Theoretical Understanding, Generic
\* Problem Solving, Autonomy & Responsibility) and as ID number that
\* identifier, a hyphen and the name in upper case.
C6_LeafIds ==
    outcome = "returned" =>
        \A i \in 2..Len(reformattedData) :
            LET row == reformattedData[i]
                parent == AreaRowId(DefaultParentName(row.shortName))
            IN  IsAnyLeafName(row.shortName) =>
                    /\ row.parentId = parent
                    /\ row.idNumber = parent \o Dash \o ToUpperCase(row.shortName)

\* ------------------------------------------------------------ C7

\* C7: a row whose name is not empty, no area label and no K/S/C-digits name:
\* when the name starts with k, s or c (either case) and an earlier row has
\* recorded the default sub-area of that letter, the row's parent is that
\* sub-area's identifier and its ID number parent-generateCode(name); in every
\* other case the parent is empty and the ID number prefix-generateCode(name).
C7_FallbackIds ==
    outcome = "returned" =>
        \A i \in 2..Len(reformattedData) :
            LET row == reformattedData[i]
                name == row.shortName
                area == DefaultParentName(name)
                known == /\ area # <<>>
                         /\ \E j \in 2..(i - 1) : reformattedData[j].shortName = area
            IN  (name # <<>> /\ name \notin AreaLabels /\ ~IsAnyLeafName(name)) =>
                    IF known
                    THEN /\ row.parentId = AreaRowId(area)
                         /\ row.idNumber = AreaRowId(area) \o Dash \o generateCode(name)
                    ELSE /\ row.parentId = <<>>
                         /\ row.idNumber = CallPrefix \o Dash \o generateCode(name)

\* ------------------------------------------------------------ C8

\* C8: every row after the framework row carries Description format 1, empty
\* Scale values, empty Scale configuration and the five-fold Taxonomy; the
\* framework row alone carries the scale values and the scale configuration.
C8_RowStandardValues ==
    outcome = "returned" =>
        /\ reformattedData[1].scaleValues = "Not yet competent,Competent"
        /\ reformattedData[1].scaleConfiguration # ""
        /\ \A i \in 2..Len(reformattedData) :
              /\ reformattedData[i].descriptionFormat = 1
              /\ reformattedData[i].scaleValues = ""
              /\ reformattedData[i].scaleConfiguration = ""
              /\ reformattedData[i].taxonomy =
                     "competency,competency,competency,competency,competency"

\* ------------------------------------------------------------ C9

\* C9: a call throws exactly when the record sequence is empty, and then it
\* returns no rows; a call on a non-empty sequence returns rows, the framework
\* row among them, whatever the names are.
C9_ThrowsOnlyOnEmpty ==
    outcome # "none" =>
        /\ (outcome = "threw") <=> (data = <<>>)
        /\ outcome = "threw" => reformattedData = <<>>
        /\ outcome = "returned" => Len(reformattedData) >= 1

\* A call on the empty sequence has thrown
C9_Witness == outcome = "threw" /\ data = <<>> /\ reformattedData = <<>>

\* ------------------------------------------------------------ C11

\* The words of a name: its pieces between white space
WordsOf(name) == SelectSeq(SplitSpaces(name), LAMBDA w : w # <<>>)

HasAlphanumeric(w) == KeepAlphanumerics(w) # <<>>

\* generateCode has been called on a name of two or more words
CodeOfManyWords ==
    /\ helperCall.fn = "generateCode"
    /\ Len(WordsOf(helperCall.argument)) >= 2

\* C11 as stated: for every name of two or more words, generateCode returns at
\* most as many characters as the name has words, none of them a character
\* that upper-casing would change; names whose words hold no ASCII letter or
\* digit included.
C11_AsStated ==
    CodeOfManyWords =>
        /\ Len(helperCall.result) <= Len(WordsOf(helperCall.argument))
        /\ \A i \in 1..Len(helperCall.result) :
              CharToUpperCase(helperCall.result[i]) = <<helperCall.result[i]>>

\* C11 amended: for every name of two or more words of which at least one
\* holds an ASCII letter or digit, generateCode returns at most as many
\* characters as the name has words, each an upper-case ASCII letter or a digit
\* (the first letter or digit of a word).  A name without any ASCII letter or
\* digit comes back trimmed and otherwise unchanged.
C11_Acronym ==
    CodeOfManyWords =>
        LET words == WordsOf(helperCall.argument)
        IN  IF \E i \in 1..Len(words) : HasAlphanumeric(words[i])
            THEN /\ Len(helperCall.result) <= Len(words)
                 /\ Len(helperCall.result) >= 1
                 /\ \A i \in 1..Len(helperCall.result) :
                       IsUpper(helperCall.result[i]) \/ IsDigit(helperCall.result[i])
            ELSE helperCall.result = Trim(helperCall.argument)

\* generateCode has been called on a name with a word of punctuation and a
\* word that starts with a digit
C11_Witness ==
    /\ CodeOfManyWords
    /\ helperCall.argument = <<"&", " ", "1", "a">>
    /\ helperCall.result = <<"1">>

\* ------------------------------------------------------------ C12

\* The loop bodies entered so far are those of the first files of the list, one
\* each and in list order; an output file was written only for a file whose
\* reader returned records; and when the loop is left, every file was
\* attempted and every file that could be read and written has its output.
BatchInOrder ==
    /\ Len(attempts) <= Len(processableFiles)
    /\ \A k \in 1..Len(attempts) : attempts[k] = k
    /\ batchPc \in {"prompt", "awaitAnswer", "parse", "parsed", "write", "caught"}
          => Len(attempts) = (IF batchPc = "prompt" THEN fileIndex - 1 ELSE fileIndex)
    /\ \A k \in 1..Len(written) :
          /\ written[k].file \in 1..Len(attempts)
          /\ processableFiles[written[k].file].disk # "unreadable"
          /\ processableFiles[written[k].file].records # <<>>
          /\ \A j \in 1..(k - 1) : written[j].file < written[k].file
    /\ batchPc = "completed" =>
          /\ Len(attempts) = Len(processableFiles)
          /\ \A i \in 1..Len(processableFiles) :
                processableFiles[i].disk = "records"
                    <=> \E k \in 1..Len(written) : written[k].file = i

\* The run of a list with files in it is over: the loop is through, or the
\* process has exited inside it
BatchOver == batchPc \in {"completed", "exited"}

\* C12: whatever the files' outcomes (no records, a read or a write that
\* throws), every file of the list is attempted once and in list order, a file
\* without records gets no output file, and the batch does not end before
\* every file has been attempted and "Batch processing completed!" is reached.
C12_BatchCompletes ==
    /\ BatchInOrder
    /\ BatchOver =>
          /\ batchPc = "completed"
          /\ Len(attempts) = Len(processableFiles)

\* ------------------------------------------------------------ C13

\* The non-empty parts of the name after the boilerplate is stripped and the
\* text is cut at the dash separator
PartsOfProgramName(name) ==
    SelectSeq(SplitSpaces(BeforeDashSeparator(
                  RemoveAll(RemoveAll(name, OutcomesOfProgram), Department))),
              LAMBDA p : Len(p) > 0)

FirstThree(part) == SubSeq(part, 1, IF Len(part) < 3 THEN Len(part) ELSE 3)

\* createFrameworkPrefix has run on a name outside the table that has one part
PrefixOfSinglePart ==
    /\ helperCall.fn = "createFrameworkPrefix"
    /\ \A e \in PROGRAM_PREFIX_MAP : e[1] # helperCall.argument
    /\ Len(PartsOfProgramName(helperCall.argument)) = 1

\* C13: for a program name outside the table that has exactly one part, also
\* with whitespace around the part, createFrameworkPrefix returns the first
\* three characters of that part, uppercased (fewer if the part is shorter).
C13_SinglePartPrefix ==
    PrefixOfSinglePart =>
        helperCall.result = ToUpperCase(FirstThree(PartsOfProgramName(helperCall.argument)[1]))

\* ------------------------------------------------------------ C14

\* The ID number of the latest of the rows 2..(i - 1) whose name is a key of
\* MAJOR_AREA_MAP, or the empty string when there is none
RECURSIVE CurrentAreaIdBefore(_)
CurrentAreaIdBefore(i) ==
    IF i <= 2 THEN <<>>
    ELSE IF reformattedData[i - 1].shortName \in DOMAIN MAJOR_AREA_MAP
    THEN reformattedData[i - 1].idNumber
    ELSE CurrentAreaIdBefore(i - 1)

\* C14: in batch_converter.js the parent of a row that is neither a key of
\* MAJOR_AREA_MAP nor a K/S/C-digits name is the ID number of the latest
\* earlier row whose name is a key of MAJOR_AREA_MAP, or empty when no such
\* row precedes it; leaf rows and uncategorised rows in between change nothing.
C14_ParentIsCurrentArea ==
    (variant = "static" /\ outcome = "returned") =>
        \A i \in 2..Len(reformattedData) :
            LET name == reformattedData[i].shortName
            IN  (name \notin DOMAIN MAJOR_AREA_MAP /\ ~IsAnyLeafName(name)) =>
                    reformattedData[i].parentId = CurrentAreaIdBefore(i)

====
